---- MODULE Spec2Model ----
(***************************************************************************)
(* The graph store of the CodeGraph frontend (store/graphStore.ts), the    *)
(* toast list of the UI store (store/uiStore.ts) and the layout decision   *)
(* (utils/layout.ts), as a state machine.                                  *)
(*                                                                         *)
(* Strings that the code takes apart or glues together (node ids, file     *)
(* paths, edge ids) are sequences of one-character strings, so that        *)
(* endsWith, replace and the `e-${source}-${target}` template are computed *)
(* as the code computes them.  A nullable field is a sequence of length 0  *)
(* (null) or 1 (the value).                                                *)
(***************************************************************************)
EXTENDS Integers, Sequences, FiniteSets, TLC

VARIABLES
    \* graphStore.ts: GraphState
    rawNodes, rawEdges, flowNodes, flowEdges, activeTab, selectedNodeId,
    nodeDetail, zoomLevel, selectedFiles, impactMode, impactResult,
    impactNodeIds, flowTraceResult, loading, truncated, totalNodeCount,
    \* projectStore: currentProject?.id, read by selectNode/setActiveTab/analyzeImpact
    currentProject,
    \* the locals of a traceFlow call while its loop runs, none when no call runs
    walk,
    \* SearchPalette: the query, the timers set and not yet fired or cleared, the
    \* timer the cleanup of the current effect clears, the requests sent
    palette,
    \* uiStore.ts: toasts and the module-level toastCounter
    toasts, toastCounter,
    \* the environment: requests in flight, the number issued so far, console.error
    pending, issued, console,
    \* history: the graph response that was delivered last, and the operation
    \* (or continuation) that ran last, with its argument
    delivered, lastOp

vars == <<rawNodes, rawEdges, flowNodes, flowEdges, activeTab, selectedNodeId,
          nodeDetail, zoomLevel, selectedFiles, impactMode, impactResult,
          impactNodeIds, flowTraceResult, loading, truncated, totalNodeCount,
          currentProject, walk, palette, toasts, toastCounter, pending, issued, console,
          delivered, lastOp>>

graphVars == <<rawNodes, rawEdges, activeTab, totalNodeCount>>
flowVars == <<flowNodes, flowEdges, truncated>>
detailVars == <<selectedNodeId, nodeDetail>>
impactVars == <<impactMode, impactResult, impactNodeIds>>
uiVars == <<toasts, toastCounter>>
envVars == <<pending, issued, console, delivered>>

----------------------------------------------------------------------------
\* Bounds of the model

\* requests (graph, node detail, impact, bookmark) issued in one behaviour
MaxRequests == 2

\* timers the search palette sets in one behaviour, and the step of the clock
MaxTimers == 4
TickMs == 100

----------------------------------------------------------------------------
\* Program constants

MAX_RENDERED_NODES == 300
MAX_RENDERED_EDGES == 500
MAX_SELECTED_FILES == 5
LARGE_GRAPH_NODES == 150
MAX_TOASTS_KEPT == 2
UNKNOWN_PRIORITY == 9
GRID_MIN_NODES == 10
NODE_WIDTH == 200
NODE_HEIGHT == 50
DEBOUNCE_MS == 300
MIN_QUERY_LENGTH == 2

----------------------------------------------------------------------------
\* Option values and string helpers

None == <<>>
Some(x) == <<x>>
IsSome(o) == Len(o) > 0
Get(o) == o[1]

Range(s) == {s[i] : i \in DOMAIN s}

\* String.prototype.endsWith
EndsWith(s, suffix) ==
    /\ Len(suffix) <= Len(s)
    /\ SubSeq(s, Len(s) - Len(suffix) + 1, Len(s)) = suffix

\* f.replace(/^\//, ''): one leading slash removed
StripLeadingSlash(f) ==
    IF Len(f) > 0 /\ f[1] = "/" THEN SubSeq(f, 2, Len(f)) ELSE f

\* Array.prototype.includes
Includes(s, x) == \E i \in DOMAIN s : s[i] = x

\* Array.prototype.slice(0, n)
Slice0(s, n) == SubSeq(s, 1, IF Len(s) < n THEN Len(s) ELSE n)

\* Array.prototype.slice(-n)
SliceLast(s, n) == SubSeq(s, IF Len(s) > n THEN Len(s) - n + 1 ELSE 1, Len(s))

\* `e-${source_id}-${target_id}`
EdgeId(source_id, target_id) == <<"e", "-">> \o source_id \o <<"-">> \o target_id

----------------------------------------------------------------------------
\* utils/colors.ts

colors ==
    [border |-> "#2A2A2A", textMuted |-> "#555555", accent |-> "#4A9EFF",
     impactDirect |-> "#FF6B4A", impactIndirect |-> "#FFB84D",
     impactSelected |-> "#FFFFFF", impactDimmed |-> "#333333",
     tested |-> "#4ADE80", edgeDefault |-> "#444444", edgeRead |-> "#666666",
     edgeWrite |-> "#F97316", nodeClass |-> "#A78BFA", nodeFunction |-> "#60A5FA",
     nodeVariable |-> "#34D399", nodeImport |-> "#F472B6", nodeFile |-> "#94A3B8"]

\* nodeTypeColors[type] || colors.border
nodeTypeColors(type) ==
    CASE type = "class" -> colors.nodeClass
      [] type = "function" -> colors.nodeFunction
      [] type = "variable" -> colors.nodeVariable
      [] type = "import" -> colors.nodeImport
      [] type = "file" -> colors.nodeFile
      [] type = "module" -> colors.nodeFile
      [] OTHER -> colors.border

----------------------------------------------------------------------------
\* utils/helpers.ts: isTestFile

UpperCase == <<"A","B","C","D","E","F","G","H","I","J","K","L","M",
               "N","O","P","Q","R","S","T","U","V","W","X","Y","Z">>
LowerCase == <<"a","b","c","d","e","f","g","h","i","j","k","l","m",
               "n","o","p","q","r","s","t","u","v","w","x","y","z">>

ToLowerChar(c) ==
    IF \E i \in DOMAIN UpperCase : UpperCase[i] = c
    THEN LowerCase[CHOOSE i \in DOMAIN UpperCase : UpperCase[i] = c]
    ELSE c

\* String.prototype.toLowerCase
ToLowerCase(s) == [i \in DOMAIN s |-> ToLowerChar(s[i])]

\* String.prototype.startsWith
StartsWith(s, prefix) ==
    /\ Len(prefix) <= Len(s)
    /\ SubSeq(s, 1, Len(prefix)) = prefix

\* String.prototype.split('/')
RECURSIVE SplitFrom(_, _, _)
SplitFrom(s, i, cur) ==
    IF i > Len(s) THEN <<cur>>
    ELSE IF s[i] = "/" THEN <<cur>> \o SplitFrom(s, i + 1, <<>>)
    ELSE SplitFrom(s, i + 1, Append(cur, s[i]))

Split(s) == SplitFrom(s, 1, <<>>)

\* fileName.replace(/\.[^.]+$/, ''): the last extension removed
StripExtension(fileName) ==
    LET dots == {i \in DOMAIN fileName : fileName[i] = "."} IN
    IF dots = {} THEN fileName
    ELSE LET k == CHOOSE i \in dots : \A j \in dots : j <= i IN
         IF k < Len(fileName) THEN SubSeq(fileName, 1, k - 1) ELSE fileName

isTestFile(path) ==
    LET parts == Split(path)
        fileName == parts[Len(parts)]
        stem == ToLowerCase(StripExtension(fileName))
    IN \/ StartsWith(stem, <<"t","e","s","t","_">>)
       \/ EndsWith(stem, <<"_","t","e","s","t">>)
       \/ (StartsWith(stem, <<"t","e","s","t">>) /\ stem # <<"t","e","s","t">>)
       \/ EndsWith(stem, <<"_","s","p","e","c">>)
       \/ EndsWith(stem, <<".","t","e","s","t">>)
       \/ EndsWith(stem, <<".","s","p","e","c">>)
       \/ Includes(parts, <<"t","e","s","t","s">>)
       \/ Includes(parts, <<"t","e","s","t">>)
       \/ Includes(parts, <<"_","_","t","e","s","t","s","_","_">>)
       \/ Includes(parts, <<"s","p","e","c">>)

----------------------------------------------------------------------------
\* utils/layout.ts

\* a variant that rounds down and adds one
FloorSqrtPlusOne(n) == CHOOSE c \in 1..(n + 1) : c * c > n /\ (c - 1) * (c - 1) <= n

\* Math.ceil(Math.sqrt(n))
CeilSqrt(n) == CHOOSE c \in 0..n : c * c >= n /\ (c = 0 \/ (c - 1) * (c - 1) < n)

\* the centre dagre.layout assigns to a node; dagre is a library outside the
\* repository, of which only determinism is modelled
DagreNode(nodes, edges, id) == [x |-> NODE_WIDTH \div 2, y |-> NODE_HEIGHT \div 2]

getGridLayout(nodes, edges) ==
    LET cols == CeilSqrt(Len(nodes))
        gapX == NODE_WIDTH + 40
        gapY == NODE_HEIGHT + 30
    IN [nodes |-> [k \in DOMAIN nodes |->
                     [nodes[k] EXCEPT !.position =
                        [x |-> ((k - 1) % cols) * gapX + 40,
                         y |-> ((k - 1) \div cols) * gapY + 40]]],
        edges |-> edges]

\* a variant that takes the grid when exactly half of the nodes have no edge
UseGridLayoutAtHalf(nodes, edges) ==
    LET connectedNodeIds ==
            {edges[i].source : i \in DOMAIN edges} \cup {edges[i].target : i \in DOMAIN edges}
        n == Len(nodes)
        ratioAtLeastHalf == n > 0 /\ 2 * (n - Cardinality(connectedNodeIds)) >= n
    IN n > GRID_MIN_NODES /\ (Len(edges) = 0 \/ ratioAtLeastHalf)

\* the decision of getLayoutedElements: grid instead of dagre
UseGridLayout(nodes, edges) ==
    LET connectedNodeIds ==
            {edges[i].source : i \in DOMAIN edges} \cup {edges[i].target : i \in DOMAIN edges}
        n == Len(nodes)
        \* disconnectedRatio > 0.5, with disconnectedRatio = (n - size) / n for n > 0, else 0
        ratioAboveHalf == n > 0 /\ 2 * (n - Cardinality(connectedNodeIds)) > n
    IN n > GRID_MIN_NODES /\ (Len(edges) = 0 \/ ratioAboveHalf)

getLayoutedElements(nodes, edges) ==
    IF UseGridLayout(nodes, edges) THEN getGridLayout(nodes, edges)
    ELSE [nodes |-> [k \in DOMAIN nodes |->
                       LET c == DagreNode(nodes, edges, nodes[k].id) IN
                       [nodes[k] EXCEPT !.position =
                          [x |-> c.x - NODE_WIDTH \div 2, y |-> c.y - NODE_HEIGHT \div 2]]],
          edges |-> edges]

----------------------------------------------------------------------------
\* graphStore.ts: traceFlow's breadth-first search

\* Map.prototype.set
MapSet(m, k, v) == [x \in DOMAIN m \cup {k} |-> IF x = k THEN v ELSE m[x]]
EmptyMap == [x \in {} |-> 0]

\* a variant that follows the edges of every type
AdjacentAnyType(edges, id) ==
    LET out == SelectSeq(edges, LAMBDA e : e.source_id = id)
    IN [i \in DOMAIN out |->
          [targetId |-> out[i].target_id,
           edgeId |-> EdgeId(out[i].source_id, out[i].target_id)]]

\* adj.get(id) || []: the calls edges leaving id, in rawEdges order
Adjacent(edges, id) ==
    LET out == SelectSeq(edges, LAMBDA e : e.type = "calls" /\ e.source_id = id)
    IN [i \in DOMAIN out |->
          [targetId |-> out[i].target_id,
           edgeId |-> EdgeId(out[i].source_id, out[i].target_id)]]

\* a variant that takes the number of the discovery for the depth
RECURSIVE VisitTargetsDepthByOrder(_, _, _, _)
VisitTargetsDepthByOrder(targets, i, current, st) ==
    IF i > Len(targets) THEN st
    ELSE LET t == targets[i] IN
         IF t.targetId \in st.visited THEN VisitTargetsDepthByOrder(targets, i + 1, current, st)
         ELSE VisitTargetsDepthByOrder(targets, i + 1, current,
                [visited |-> st.visited \cup {t.targetId},
                 order |-> st.order + 1,
                 chain |-> Append(st.chain,
                             [nodeId |-> t.targetId, depth |-> st.order + 1,
                              order |-> st.order + 1, parentEdgeId |-> t.edgeId]),
                 edgeOrder |-> MapSet(st.edgeOrder, t.edgeId, st.order + 1),
                 queue |-> Append(st.queue, [id |-> t.targetId, depth |-> st.order + 1])])

\* the for loop over the adjacency list of `current`, from its i-th entry on
RECURSIVE VisitTargets(_, _, _, _)
VisitTargets(targets, i, current, st) ==
    IF i > Len(targets) THEN st
    ELSE LET t == targets[i] IN
         IF t.targetId \in st.visited THEN VisitTargets(targets, i + 1, current, st)
         ELSE VisitTargets(targets, i + 1, current,
                [visited |-> st.visited \cup {t.targetId},
                 order |-> st.order + 1,
                 chain |-> Append(st.chain,
                             [nodeId |-> t.targetId, depth |-> current.depth + 1,
                              order |-> st.order + 1, parentEdgeId |-> t.edgeId]),
                 edgeOrder |-> MapSet(st.edgeOrder, t.edgeId, st.order + 1),
                 queue |-> Append(st.queue, [id |-> t.targetId, depth |-> current.depth + 1])])

\* a variant that reads the head of the queue and leaves it there
WhileIterationNoShift(edges, st) ==
    LET current == Head(st.queue)
    IN VisitTargets(Adjacent(edges, current.id), 1, current, st)

\* one iteration of the while loop: queue.shift(), then the for loop
WhileIteration(edges, st) ==
    LET current == Head(st.queue)
        rest == [st EXCEPT !.queue = Tail(st.queue)]
    IN VisitTargets(Adjacent(edges, current.id), 1, current, rest)

\* a variant whose visited set starts empty
TraceStartUnvisited(nodeId) ==
    [visited |-> {}, order |-> 0, chain |-> <<>>, edgeOrder |-> EmptyMap,
     queue |-> <<[id |-> nodeId, depth |-> 0]>>]

\* the locals of traceFlow when the while loop is entered
TraceStart(nodeId) ==
    [visited |-> {nodeId}, order |-> 0, chain |-> <<>>, edgeOrder |-> EmptyMap,
     queue |-> <<[id |-> nodeId, depth |-> 0]>>]

\* the while loop
RECURSIVE BFS(_, _)
BFS(edges, st) ==
    IF Len(st.queue) = 0 THEN st
    ELSE BFS(edges, WhileIteration(edges, st))

\* the FlowTraceResult traceFlow stores
TraceResult(edges, nodeId) ==
    LET final == BFS(edges, TraceStart(nodeId))
    IN [origin |-> nodeId, chain |-> final.chain, edgeOrder |-> final.edgeOrder]

----------------------------------------------------------------------------
\* graphStore.ts: updateFlowElements, stage by stage

\* a variant that keeps files only at the zoom level files
ZoomFilterFilesOnly(nodes, zoom) ==
    IF zoom = "modules" \/ zoom = "files" THEN SelectSeq(nodes, LAMBDA n : n.type = "file")
    ELSE nodes

\* filter by zoom level
ZoomFilter(nodes, zoom) ==
    IF zoom = "modules" THEN SelectSeq(nodes, LAMBDA n : n.type = "file")
    ELSE IF zoom = "files" THEN SelectSeq(nodes, LAMBDA n : n.type = "file" \/ n.type = "class")
    ELSE nodes

\* a variant that takes the selected paths as they are
MatchesAsSelected(file_path, files) ==
    \/ file_path \in Range(files)
    \/ \E i \in DOMAIN files : EndsWith(file_path, <<"/">> \o files[i])

\* the predicate of the selected-files filter
MatchesSelectedFile(file_path, files) ==
    \/ file_path \in Range(files)
    \/ \E i \in DOMAIN files :
         \/ EndsWith(file_path, <<"/">> \o files[i])
         \/ EndsWith(file_path, <<"/">> \o StripLeadingSlash(files[i]))

\* filter by selected files
FileFilter(nodes, files) ==
    IF Len(files) > 0
    THEN SelectSeq(nodes, LAMBDA n : MatchesSelectedFile(n.file_path, files))
    ELSE nodes

\* typePriority[type] ?? 9
typePriority(type) ==
    CASE type = "class" -> 0
      [] type = "file" -> 1
      [] type = "function" -> 2
      [] type = "variable" -> 3
      [] type = "import" -> 4
      [] type = "module" -> 5
      [] OTHER -> UNKNOWN_PRIORITY

\* edgePriority[type] ?? 9
edgePriority(type) ==
    CASE type = "calls" -> 0
      [] type = "inherits" -> 1
      [] type = "imports" -> 2
      [] type = "composes" -> 3
      [] type = "reads" -> 4
      [] type = "writes" -> 5
      [] type = "tests" -> 6
      [] OTHER -> UNKNOWN_PRIORITY

\* [...filteredNodes].sort((a, b) => prio(a.type) - prio(b.type)): a stable
\* sort, so the nodes of each priority in their original order, the priorities
\* ascending
RECURSIVE SortNodesFrom(_, _)
SortNodesFrom(nodes, p) ==
    IF p > UNKNOWN_PRIORITY THEN <<>>
    ELSE SelectSeq(nodes, LAMBDA n : typePriority(n.type) = p) \o SortNodesFrom(nodes, p + 1)

SortNodes(nodes) == SortNodesFrom(nodes, 0)

\* the same sort of the edges, by edgePriority
RECURSIVE SortEdgesFrom(_, _)
SortEdgesFrom(edges, p) ==
    IF p > UNKNOWN_PRIORITY THEN <<>>
    ELSE SelectSeq(edges, LAMBDA e : edgePriority(e.type) = p) \o SortEdgesFrom(edges, p + 1)

SortEdges(edges) == SortEdgesFrom(edges, 0)

\* a variant that cuts without sorting
TruncateNodesUnsorted(nodes) ==
    IF Len(nodes) > MAX_RENDERED_NODES
    THEN Slice0(nodes, MAX_RENDERED_NODES)
    ELSE nodes

\* enforce the node limit
TruncateNodes(nodes) ==
    IF Len(nodes) > MAX_RENDERED_NODES
    THEN Slice0(SortNodes(nodes), MAX_RENDERED_NODES)
    ELSE nodes

\* a variant that asks for the target only
EdgesInto(edges, nodeIds) ==
    SelectSeq(edges, LAMBDA e : e.target_id \in nodeIds)

\* a variant that asks for the source only
EdgesOutOf(edges, nodeIds) ==
    SelectSeq(edges, LAMBDA e : e.source_id \in nodeIds)

\* rawEdges.filter(e => nodeIds.has(e.source_id) && nodeIds.has(e.target_id))
EdgesBetween(edges, nodeIds) ==
    SelectSeq(edges, LAMBDA e : e.source_id \in nodeIds /\ e.target_id \in nodeIds)

\* a variant that cuts without sorting
CapEdgesUnsorted(edges) ==
    IF Len(edges) > MAX_RENDERED_EDGES
    THEN Slice0(edges, MAX_RENDERED_EDGES)
    ELSE edges

\* a variant that sorts and does not cut
CapEdgesUncut(edges) ==
    IF Len(edges) > MAX_RENDERED_EDGES
    THEN SortEdges(edges)
    ELSE edges

\* cap the edge count
CapEdges(edges) ==
    IF Len(edges) > MAX_RENDERED_EDGES
    THEN Slice0(SortEdges(edges), MAX_RENDERED_EDGES)
    ELSE edges

\* incomingCount.get(id) || 0 and outgoingCount.get(id) || 0
CountIncoming(edges, id) == Cardinality({i \in DOMAIN edges : edges[i].target_id = id})
CountOutgoing(edges, id) == Cardinality({i \in DOMAIN edges : edges[i].source_id = id})

\* testedNodeIds: the targets of calls edges leaving a node of a test file
TestedNodeIds(nodes, edges) ==
    LET testPaths == {p \in {nodes[i].file_path : i \in DOMAIN nodes} : isTestFile(p)}
        testNodeIds == {nodes[i].id : i \in {j \in DOMAIN nodes : nodes[j].file_path \in testPaths}}
    IN {edges[i].target_id :
          i \in {j \in DOMAIN edges : edges[j].type = "calls" /\ edges[j].source_id \in testNodeIds}}

\* a variant that asks for the indirectly affected before the directly affected
NodeStyleIndirectFirst(n, impact, impactIds, trace) ==
    IF IsSome(trace) THEN
        IF n.id = Get(trace).origin
        THEN [borderColor |-> colors.accent, opacity |-> 100]
        ELSE IF \E i \in DOMAIN Get(trace).chain : Get(trace).chain[i].nodeId = n.id
        THEN [borderColor |-> colors.tested, opacity |-> 100]
        ELSE [borderColor |-> colors.impactDimmed, opacity |-> 15]
    ELSE IF IsSome(impact) THEN
        IF Includes(impactIds, n.id)
        THEN [borderColor |-> colors.impactSelected, opacity |-> 100]
        ELSE IF \E i \in DOMAIN Get(impact).indirectly_affected :
                   Get(impact).indirectly_affected[i].id = n.id
        THEN [borderColor |-> colors.impactIndirect, opacity |-> 100]
        ELSE IF \E i \in DOMAIN Get(impact).directly_affected :
                   Get(impact).directly_affected[i].id = n.id
        THEN [borderColor |-> colors.impactDirect, opacity |-> 100]
        ELSE [borderColor |-> colors.impactDimmed, opacity |-> 30]
    ELSE [borderColor |-> nodeTypeColors(n.type), opacity |-> 100]

\* a variant that asks for the impact result before the flow trace
NodeStyleImpactFirst(n, impact, impactIds, trace) ==
    IF IsSome(impact) THEN
        IF Includes(impactIds, n.id)
        THEN [borderColor |-> colors.impactSelected, opacity |-> 100]
        ELSE IF \E i \in DOMAIN Get(impact).directly_affected :
                   Get(impact).directly_affected[i].id = n.id
        THEN [borderColor |-> colors.impactDirect, opacity |-> 100]
        ELSE IF \E i \in DOMAIN Get(impact).indirectly_affected :
                   Get(impact).indirectly_affected[i].id = n.id
        THEN [borderColor |-> colors.impactIndirect, opacity |-> 100]
        ELSE [borderColor |-> colors.impactDimmed, opacity |-> 30]
    ELSE IF IsSome(trace) THEN
        IF n.id = Get(trace).origin
        THEN [borderColor |-> colors.accent, opacity |-> 100]
        ELSE IF \E i \in DOMAIN Get(trace).chain : Get(trace).chain[i].nodeId = n.id
        THEN [borderColor |-> colors.tested, opacity |-> 100]
        ELSE [borderColor |-> colors.impactDimmed, opacity |-> 15]
    ELSE [borderColor |-> nodeTypeColors(n.type), opacity |-> 100]

\* border colour and opacity (in percent) of a node
NodeStyle(n, impact, impactIds, trace) ==
    IF IsSome(trace) THEN
        IF n.id = Get(trace).origin
        THEN [borderColor |-> colors.accent, opacity |-> 100]
        ELSE IF \E i \in DOMAIN Get(trace).chain : Get(trace).chain[i].nodeId = n.id
        THEN [borderColor |-> colors.tested, opacity |-> 100]
        ELSE [borderColor |-> colors.impactDimmed, opacity |-> 15]
    ELSE IF IsSome(impact) THEN
        IF Includes(impactIds, n.id)
        THEN [borderColor |-> colors.impactSelected, opacity |-> 100]
        ELSE IF \E i \in DOMAIN Get(impact).directly_affected :
                   Get(impact).directly_affected[i].id = n.id
        THEN [borderColor |-> colors.impactDirect, opacity |-> 100]
        ELSE IF \E i \in DOMAIN Get(impact).indirectly_affected :
                   Get(impact).indirectly_affected[i].id = n.id
        THEN [borderColor |-> colors.impactIndirect, opacity |-> 100]
        ELSE [borderColor |-> colors.impactDimmed, opacity |-> 30]
    ELSE [borderColor |-> nodeTypeColors(n.type), opacity |-> 100]

\* a variant that asks for two outgoing edges
IsEntryPointFromTwo(n, inCount, outCount) ==
    n.type = "function" /\ outCount >= 2 /\ inCount <= 1

\* entryPointIds: functions of high fan-out and low fan-in
IsEntryPoint(n, inCount, outCount) ==
    n.type = "function" /\ outCount >= 3 /\ inCount <= 1

\* one React Flow node
FlowNode(n, visibleEdges, tested, impact, impactIds, trace) ==
    LET style == NodeStyle(n, impact, impactIds, trace)
        inCount == CountIncoming(visibleEdges, n.id)
        outCount == CountOutgoing(visibleEdges, n.id)
    IN [id |-> n.id,
        position |-> [x |-> 0, y |-> 0],
        nodeType |-> n.type,
        filePath |-> n.file_path,
        borderColor |-> style.borderColor,
        opacity |-> style.opacity,
        incomingCount |-> inCount,
        outgoingCount |-> outCount,
        testCovered |-> IF n.type = "function" \/ n.type = "class"
                        THEN Some(n.id \in tested) ELSE None,
        isEntryPoint |-> IsEntryPoint(n, inCount, outCount)]

\* one React Flow edge; stroke widths in tenths
FlowEdge(e, isLargeGraph, trace) ==
    LET edgeId == EdgeId(e.source_id, e.target_id)
        baseColor ==
            IF e.is_external THEN colors.textMuted
            ELSE CASE e.type = "inherits" -> colors.nodeClass
                   [] e.type = "imports" -> colors.nodeImport
                   [] e.type = "reads" -> colors.edgeRead
                   [] e.type = "writes" -> colors.edgeWrite
                   [] OTHER -> colors.edgeDefault
        baseDash ==
            CASE e.type = "inherits" -> "8 4"
              [] e.type = "imports" -> "3 3"
              [] e.type = "reads" -> "6 3 2 3"
              [] OTHER -> "undefined"
        baseWidth == IF e.type = "calls" THEN 20 ELSE 15
        traced == IsSome(trace) /\ edgeId \in DOMAIN Get(trace).edgeOrder
        dimmed == IsSome(trace) /\ ~traced
    IN [id |-> edgeId,
        source |-> e.source_id,
        target |-> e.target_id,
        animated |-> IF traced THEN TRUE ELSE (~isLargeGraph /\ e.type = "calls"),
        stroke |-> IF traced THEN colors.accent
                   ELSE IF dimmed THEN colors.impactDimmed ELSE baseColor,
        strokeWidth |-> IF traced THEN 25 ELSE IF dimmed THEN 10 ELSE baseWidth,
        strokeDasharray |-> IF IsSome(trace) THEN "undefined" ELSE baseDash,
        markerType |-> IF ~dimmed /\ e.type = "inherits" THEN "arrow" ELSE "arrowclosed",
        markerColor |-> IF dimmed THEN colors.impactDimmed ELSE baseColor,
        edgeType |-> e.type,
        flowOrder |-> IF traced THEN Some(Get(trace).edgeOrder[edgeId]) ELSE None]

\* the nodes that survive the zoom filter, the file filter and the node limit
RenderedRawNodes(nodes, zoom, files) ==
    TruncateNodes(FileFilter(ZoomFilter(nodes, zoom), files))

\* updateFlowElements: what it stores from what it reads
updateFlowElements(nodes, edges, zoom, files, impact, impactIds, trace) ==
    LET filtered == FileFilter(ZoomFilter(nodes, zoom), files)
        kept == TruncateNodes(filtered)
        nodeIds == {kept[i].id : i \in DOMAIN kept}
        isLargeGraph == Len(kept) > LARGE_GRAPH_NODES
        visibleEdges == EdgesBetween(edges, nodeIds)
        tested == TestedNodeIds(nodes, edges)
        fNodes == [i \in DOMAIN kept |->
                     FlowNode(kept[i], visibleEdges, tested, impact, impactIds, trace)]
        filteredEdges == CapEdges(visibleEdges)
        fEdges == [i \in DOMAIN filteredEdges |-> FlowEdge(filteredEdges[i], isLargeGraph, trace)]
        layouted == getLayoutedElements(fNodes, fEdges)
    IN [flowNodes |-> layouted.nodes,
        flowEdges |-> layouted.edges,
        truncated |-> Len(filtered) > MAX_RENDERED_NODES]

----------------------------------------------------------------------------
\* Inputs: what the backend may answer and what the user may pick

GraphNode(id, type, file_path) == [id |-> id, type |-> type, file_path |-> file_path]
GraphEdge(source_id, target_id, type) ==
    [source_id |-> source_id, target_id |-> target_id, type |-> type, is_external |-> FALSE]

PathA == <<"/", "r", "/", "a">>
PathRelA == <<"a">>
PathSlashA == <<"/", "a">>
PathRA == <<"r", "/", "a">>
PathCA == <<"/", "r", "/", "c", "a">>
PathB == <<"b">>
PathX == <<"x">>
PathTest == <<"t", "e", "s", "t", "s", "/", "t">>

\* a file with two functions that call each other, a class in another file, and
\* an edge to a node the backend did not send
GraphA ==
    [nodes |-> << GraphNode(<<"A">>, "file", PathA),
                  GraphNode(<<"B">>, "function", PathA),
                  GraphNode(<<"C">>, "function", PathA),
                  GraphNode(<<"D">>, "class", PathB) >>,
     edges |-> << GraphEdge(<<"B">>, <<"C">>, "calls"),
                  GraphEdge(<<"A">>, <<"B">>, "imports"),
                  GraphEdge(<<"C">>, <<"B">>, "calls"),
                  GraphEdge(<<"D">>, <<"A">>, "reads"),
                  GraphEdge(<<"B">>, <<"Z">>, "calls") >>]

\* a test file whose function calls a class method
GraphB ==
    [nodes |-> << GraphNode(<<"A">>, "file", PathB),
                  GraphNode(<<"T">>, "function", PathTest),
                  GraphNode(<<"D">>, "class", PathB),
                  GraphNode(<<"V">>, "variable", PathB) >>,
     edges |-> << GraphEdge(<<"T">>, <<"D">>, "calls"),
                  GraphEdge(<<"D">>, <<"V">>, "writes"),
                  GraphEdge(<<"A">>, <<"D">>, "imports") >>]

\* nodes whose paths differ in how they relate to the selectable paths
GraphPaths ==
    [nodes |-> << GraphNode(<<"A">>, "file", PathA),
                  GraphNode(<<"B">>, "class", PathRelA),
                  GraphNode(<<"C">>, "function", PathCA),
                  GraphNode(<<"D">>, "file", PathB),
                  GraphNode(<<"E">>, "function", PathA) >>,
     edges |-> << GraphEdge(<<"E">>, <<"C">>, "calls"),
                  GraphEdge(<<"A">>, <<"D">>, "imports"),
                  GraphEdge(<<"B">>, <<"E">>, "composes") >>]

DigitChars == <<"0", "1", "2", "3", "4", "5", "6", "7", "8", "9">>

RECURSIVE Digits(_)
Digits(i) == IF i < 10 THEN <<DigitChars[i + 1]>>
             ELSE Append(Digits(i \div 10), DigitChars[(i % 10) + 1])

NodeIdOf(i) == <<"n">> \o Digits(i)

NodeTypeCycle == <<"class", "file", "function", "variable", "import", "module", "namespace">>
EdgeTypeCycle == <<"calls", "inherits", "imports", "composes", "reads", "writes", "tests", "uses">>

\* one node more than may be rendered, of every type in turn, in two files
GraphManyNodes ==
    [nodes |-> [i \in 1..(MAX_RENDERED_NODES + 1) |->
                  GraphNode(NodeIdOf(i), NodeTypeCycle[(i % 7) + 1],
                            IF i % 2 = 0 THEN PathA ELSE PathB)],
     edges |-> << GraphEdge(NodeIdOf(1), NodeIdOf(2), "calls"),
                  GraphEdge(NodeIdOf(300), NodeIdOf(1), "calls"),
                  GraphEdge(NodeIdOf(2), NodeIdOf(8), "imports") >>]

ManyEdgesNodeCount == 23

\* one edge more than may be rendered, between 23 nodes, no two edges with the
\* same source and target, of every type in turn
GraphManyEdges ==
    [nodes |-> [i \in 1..ManyEdgesNodeCount |->
                  GraphNode(NodeIdOf(i), IF i % 4 = 0 THEN "file" ELSE "function",
                            IF i % 2 = 0 THEN PathA ELSE PathB)],
     edges |-> [k \in 1..(MAX_RENDERED_EDGES + 1) |->
                  GraphEdge(NodeIdOf(((k - 1) \div ManyEdgesNodeCount) + 1),
                            NodeIdOf(((k - 1) % ManyEdgesNodeCount) + 1),
                            EdgeTypeCycle[(k % 8) + 1])]]

\* the answer of the backend to analyzeImpact
ImpactOf(nodeIds) ==
    [directly_affected |-> << [id |-> <<"C">>], [id |-> <<"B">>] >>,
     indirectly_affected |-> << [id |-> <<"A">>], [id |-> <<"C">>] >>]

ZoomLevels == {"modules", "files", "functions"}
Project == <<"p">>

----------------------------------------------------------------------------
\* Requests in flight and the responses delivered

Request(kind, seq, tab, nodeId, nodeIds) ==
    [kind |-> kind, seq |-> seq, tab |-> tab, nodeId |-> nodeId, nodeIds |-> nodeIds]

Issue(kind, tab, nodeId, nodeIds) ==
    /\ issued < MaxRequests
    /\ issued' = issued + 1
    /\ pending' = pending \cup {Request(kind, issued + 1, tab, nodeId, nodeIds)}
    /\ UNCHANGED <<console, delivered>>

Outstanding(kind) == {r \in pending : r.kind = kind}

NoData == [nodes |-> <<>>, edges |-> <<>>]

\* the record of a fulfilled graph request: its payload, its place in the order
\* of issue, and the latest place in that order fulfilled so far
Response(r, data) ==
    [seq |-> r.seq, tab |-> r.tab, nodes |-> data.nodes, edges |-> data.edges,
     newest |-> IF IsSome(delivered) /\ Get(delivered).newest > r.seq
                THEN Get(delivered).newest ELSE r.seq]

\* request r of the given kind is answered
Deliver(r, kind, ok, data) ==
    /\ r \in Outstanding(kind)
    /\ pending' = pending \ {r}
    /\ delivered' = (IF kind = "graph" /\ ok THEN Some(Response(r, data)) ELSE delivered)
    /\ UNCHANGED issued

Op(op, arg) == [op |-> op, arg |-> arg]

\* a variant that adds to the edges rendered before
RunPipelineAppending(nodes, edges, zoom, files, impact, impactIds, trace) ==
    LET out == updateFlowElements(nodes, edges, zoom, files, impact, impactIds, trace)
    IN /\ flowNodes' = out.flowNodes
       /\ flowEdges' = flowEdges \o out.flowEdges
       /\ truncated' = out.truncated

\* get().updateFlowElements() on the state the handler has just set
RunPipeline(nodes, edges, zoom, files, impact, impactIds, trace) ==
    LET out == updateFlowElements(nodes, edges, zoom, files, impact, impactIds, trace)
    IN /\ flowNodes' = out.flowNodes
       /\ flowEdges' = out.flowEdges
       /\ truncated' = out.truncated

----------------------------------------------------------------------------
\* SearchPalette: the debounced search

\* String.prototype.trim, for queries of letters and blanks
RECURSIVE TrimStart(_)
TrimStart(s) == IF s # <<>> /\ Head(s) = " " THEN TrimStart(Tail(s)) ELSE s
RECURSIVE TrimEnd(_)
TrimEnd(s) == IF s # <<>> /\ s[Len(s)] = " " THEN TrimEnd(SubSeq(s, 1, Len(s) - 1)) ELSE s
Trim(s) == TrimEnd(TrimStart(s))

\* the palette once mounted: the effect has run for the empty query
PaletteMounted ==
    [query |-> <<>>,
     timers |-> {[id |-> 1, query |-> <<>>, elapsed |-> 0]},
     effectTimer |-> 1,
     timersSet |-> 1,
     sent |-> <<>>,
     settled |-> {},
     loading |-> FALSE,
     unchangedFor |-> 0]

\* a variant whose effect has no cleanup
EffectRerunNoCleanup(timers, cleared, id, q) ==
    timers \cup {[id |-> id, query |-> q, elapsed |-> 0]}

\* the effect runs again: clearTimeout(timer) of the run before, then setTimeout
EffectRerun(timers, cleared, id, q) ==
    {t \in timers : t.id # cleared} \cup {[id |-> id, query |-> q, elapsed |-> 0]}

\* min(ms + TickMs, DEBOUNCE_MS): the clock is not followed past the interval
Later(ms) == IF ms + TickMs >= DEBOUNCE_MS THEN DEBOUNCE_MS ELSE ms + TickMs

\* onChange: setQuery(e.target.value), the render and the effect that follow
setQuery(q) ==
    /\ q # palette.query
    /\ palette.timersSet < MaxTimers
    /\ palette' = [palette EXCEPT
                     !.query = q,
                     !.timers = EffectRerun(palette.timers, palette.effectTimer,
                                            palette.timersSet + 1, q),
                     !.effectTimer = palette.timersSet + 1,
                     !.timersSet = palette.timersSet + 1,
                     !.unchangedFor = 0]
    /\ lastOp' = Op("setQuery", q)
    /\ UNCHANGED <<graphVars, flowVars, detailVars, zoomLevel, selectedFiles, impactVars,
                   flowTraceResult, loading, currentProject, walk, uiVars, envVars>>

\* time passes with no event
timePasses ==
    /\ \/ palette.unchangedFor < DEBOUNCE_MS
       \/ \E t \in palette.timers : t.elapsed < DEBOUNCE_MS
    /\ palette' = [palette EXCEPT
                     !.timers = {[t EXCEPT !.elapsed = Later(t.elapsed)] : t \in palette.timers},
                     !.unchangedFor = Later(palette.unchangedFor)]
    /\ lastOp' = Op("timePasses", <<>>)
    /\ UNCHANGED <<graphVars, flowVars, detailVars, zoomLevel, selectedFiles, impactVars,
                   flowTraceResult, loading, currentProject, walk, uiVars, envVars>>

\* the callback of a timer runs, with the query and the doSearch of the render
\* that set it; doSearch up to its await
timerFires(t) ==
    /\ t \in palette.timers
    /\ t.elapsed >= DEBOUNCE_MS
    /\ LET searches == /\ Len(Trim(t.query)) >= MIN_QUERY_LENGTH
                       /\ Trim(t.query) # <<>>
                       /\ IsSome(currentProject)
       IN palette' = [palette EXCEPT
                        !.timers = palette.timers \ {t},
                        !.loading = IF searches THEN TRUE ELSE palette.loading,
                        !.sent = IF searches
                                 THEN Append(palette.sent,
                                             [query |-> Trim(t.query),
                                              typed |-> t.query,
                                              shown |-> palette.query,
                                              unchangedFor |-> palette.unchangedFor])
                                 ELSE palette.sent]
    /\ lastOp' = Op("timerFires", t.query)
    /\ UNCHANGED <<graphVars, flowVars, detailVars, zoomLevel, selectedFiles, impactVars,
                   flowTraceResult, loading, currentProject, walk, uiVars, envVars>>

\* api.search is fulfilled or rejected: finally setLoading(false)
searchSettled(i) ==
    /\ i \in DOMAIN palette.sent
    /\ i \notin palette.settled
    /\ palette' = [palette EXCEPT !.settled = palette.settled \cup {i}, !.loading = FALSE]
    /\ lastOp' = Op("searchSettled", palette.sent[i].query)
    /\ UNCHANGED <<graphVars, flowVars, detailVars, zoomLevel, selectedFiles, impactVars,
                   flowTraceResult, loading, currentProject, walk, uiVars, envVars>>


----------------------------------------------------------------------------
\* The initial state: the stores as created, a project open (the graph view is
\* mounted only then)

Init ==
    /\ rawNodes = <<>> /\ rawEdges = <<>>
    /\ flowNodes = <<>> /\ flowEdges = <<>>
    /\ activeTab = None
    /\ selectedNodeId = None /\ nodeDetail = None
    /\ zoomLevel = "functions"
    /\ selectedFiles = <<>>
    /\ impactMode = FALSE /\ impactResult = None /\ impactNodeIds = <<>>
    /\ flowTraceResult = None
    /\ loading = FALSE /\ truncated = FALSE /\ totalNodeCount = 0
    /\ currentProject = Some(Project)
    /\ walk = None
    /\ palette = PaletteMounted
    /\ toasts = <<>> /\ toastCounter = 0
    /\ pending = {} /\ issued = 0 /\ console = <<>>
    /\ delivered = None
    /\ lastOp = Op("init", <<>>)

----------------------------------------------------------------------------
\* graphStore.ts: loadGraph

\* the call, up to the await: set({ loading: true }) and the fetch
loadGraph(tab) ==
    /\ Issue("graph", tab, <<>>, <<>>)
    /\ loading' = TRUE
    /\ lastOp' = Op("loadGraph", tab)
    /\ UNCHANGED <<graphVars, flowVars, detailVars, zoomLevel, selectedFiles, impactVars,
                   flowTraceResult, currentProject, walk, palette, uiVars>>

\* the zoom level loadGraph sets: modules for a large project with no file filter
AutoZoom(nodeCount, files, zoom) ==
    IF nodeCount > MAX_RENDERED_NODES /\ Len(files) = 0 THEN "modules" ELSE zoom

\* a variant that drops the data of a request issued before one already answered
GraphLoadedIfNewest(r, data) ==
    /\ IF IsSome(delivered) /\ Get(delivered).newest > r.seq
       THEN UNCHANGED <<graphVars, flowVars, zoomLevel>>
       ELSE /\ rawNodes' = data.nodes
            /\ rawEdges' = data.edges
            /\ activeTab' = r.tab
            /\ totalNodeCount' = Len(data.nodes)
            /\ zoomLevel' = AutoZoom(Len(data.nodes), selectedFiles, zoomLevel)
            /\ RunPipeline(rawNodes', rawEdges', zoomLevel', selectedFiles,
                           impactResult, impactNodeIds, flowTraceResult)
    /\ loading' = FALSE
    /\ UNCHANGED <<detailVars, selectedFiles, impactVars, flowTraceResult,
                   currentProject, walk, palette, uiVars, console>>

\* after the await: the try block with the data of request r, then finally
GraphLoaded(r, data) ==
    /\ rawNodes' = data.nodes
    /\ rawEdges' = data.edges
    /\ activeTab' = r.tab
    /\ totalNodeCount' = Len(data.nodes)
    /\ zoomLevel' = AutoZoom(Len(data.nodes), selectedFiles, zoomLevel)
    /\ RunPipeline(rawNodes', rawEdges', zoomLevel', selectedFiles,
                   impactResult, impactNodeIds, flowTraceResult)
    /\ loading' = FALSE
    /\ UNCHANGED <<detailVars, selectedFiles, impactVars, flowTraceResult,
                   currentProject, walk, palette, uiVars, console>>

\* a variant that empties the graph when the request fails
GraphLoadFailedClearing(r) ==
    /\ console' = Append(console, "Failed to load graph:")
    /\ rawNodes' = <<>> /\ rawEdges' = <<>>
    /\ flowNodes' = <<>> /\ flowEdges' = <<>>
    /\ loading' = FALSE
    /\ UNCHANGED <<activeTab, totalNodeCount, truncated, detailVars, zoomLevel, selectedFiles,
                   impactVars, flowTraceResult, currentProject, walk, palette, uiVars>>

\* after the await: the catch block, then finally
GraphLoadFailed(r) ==
    /\ console' = Append(console, "Failed to load graph:")
    /\ loading' = FALSE
    /\ UNCHANGED <<graphVars, flowVars, detailVars, zoomLevel, selectedFiles, impactVars,
                   flowTraceResult, currentProject, walk, palette, uiVars>>

loadGraphResolved(r, data) ==
    /\ Deliver(r, "graph", TRUE, data)
    /\ GraphLoaded(r, data)
    /\ lastOp' = Op("loadGraphResolved", r.tab)

loadGraphRejected(r) ==
    /\ Deliver(r, "graph", FALSE, NoData)
    /\ GraphLoadFailed(r)
    /\ lastOp' = Op("loadGraphRejected", r.tab)

setActiveTab(tab) ==
    /\ IsSome(currentProject)
    /\ Issue("graph", tab, <<>>, <<>>)
    /\ loading' = TRUE
    /\ lastOp' = Op("setActiveTab", tab)
    /\ UNCHANGED <<graphVars, flowVars, detailVars, zoomLevel, selectedFiles, impactVars,
                   flowTraceResult, currentProject, walk, palette, uiVars>>

----------------------------------------------------------------------------
\* graphStore.ts: selectNode

selectNode(nodeId) ==
    /\ selectedNodeId' = nodeId
    /\ nodeDetail' = None
    /\ IF IsSome(nodeId) /\ IsSome(currentProject)
       THEN Issue("detail", None, Get(nodeId), <<>>)
       ELSE UNCHANGED envVars
    /\ lastOp' = Op("selectNode", nodeId)
    /\ UNCHANGED <<graphVars, flowVars, zoomLevel, selectedFiles, impactVars,
                   flowTraceResult, loading, currentProject, walk, palette, uiVars>>

\* the detail the backend holds for a node
DetailOf(nodeId) == [id |-> nodeId]

\* after the await: set({ nodeDetail: detail })
DetailLoaded(r) ==
    /\ nodeDetail' = Some(DetailOf(r.nodeId))
    /\ UNCHANGED <<graphVars, flowVars, selectedNodeId, zoomLevel, selectedFiles, impactVars,
                   flowTraceResult, loading, currentProject, walk, palette, uiVars, console>>

\* after the await: the catch block
DetailLoadFailed(r) ==
    /\ console' = Append(console, "Failed to load node detail:")
    /\ UNCHANGED <<graphVars, flowVars, detailVars, zoomLevel, selectedFiles, impactVars,
                   flowTraceResult, loading, currentProject, walk, palette, uiVars>>

selectNodeResolved(r) ==
    /\ Deliver(r, "detail", TRUE, NoData)
    /\ DetailLoaded(r)
    /\ lastOp' = Op("selectNodeResolved", r.nodeId)

selectNodeRejected(r) ==
    /\ Deliver(r, "detail", FALSE, NoData)
    /\ DetailLoadFailed(r)
    /\ lastOp' = Op("selectNodeRejected", r.nodeId)

----------------------------------------------------------------------------
\* graphStore.ts: zoom level and file selection

setZoomLevel(level) ==
    /\ zoomLevel' = level
    /\ RunPipeline(rawNodes, rawEdges, level, selectedFiles,
                   impactResult, impactNodeIds, flowTraceResult)
    /\ lastOp' = Op("setZoomLevel", level)
    /\ UNCHANGED <<graphVars, detailVars, selectedFiles, impactVars, flowTraceResult,
                   loading, currentProject, walk, palette, uiVars, envVars>>

\* the zoom level selectFile and toggleFileSelection set
SelectionZoom(zoom) == "functions"

selectFile(filePath) ==
    /\ selectedFiles' = <<filePath>>
    /\ zoomLevel' = SelectionZoom(zoomLevel)
    /\ RunPipeline(rawNodes, rawEdges, zoomLevel', selectedFiles',
                   impactResult, impactNodeIds, flowTraceResult)
    /\ lastOp' = Op("selectFile", filePath)
    /\ UNCHANGED <<graphVars, detailVars, impactVars, flowTraceResult,
                   loading, currentProject, walk, palette, uiVars, envVars>>

\* a variant that appends without cutting
ToggledFilesUncut(files, filePath) ==
    IF Includes(files, filePath)
    THEN SelectSeq(files, LAMBDA f : f # filePath)
    ELSE Append(files, filePath)

\* the selection toggleFileSelection computes
ToggledFiles(files, filePath) ==
    IF Includes(files, filePath)
    THEN SelectSeq(files, LAMBDA f : f # filePath)
    ELSE Slice0(Append(files, filePath), MAX_SELECTED_FILES)

toggleFileSelection(filePath) ==
    /\ selectedFiles' = ToggledFiles(selectedFiles, filePath)
    /\ zoomLevel' = SelectionZoom(zoomLevel)
    /\ RunPipeline(rawNodes, rawEdges, zoomLevel', selectedFiles',
                   impactResult, impactNodeIds, flowTraceResult)
    /\ lastOp' = Op("toggleFileSelection", filePath)
    /\ UNCHANGED <<graphVars, detailVars, impactVars, flowTraceResult,
                   loading, currentProject, walk, palette, uiVars, envVars>>

\* a variant that reverts to functions whatever the size of the graph
ClearedZoomFunctions(nodeCount) == "functions"

\* the zoom level clearSelection reverts to
ClearedZoom(nodeCount) == IF nodeCount > MAX_RENDERED_NODES THEN "modules" ELSE "functions"

clearSelection ==
    /\ selectedFiles' = <<>>
    /\ selectedNodeId' = None
    /\ nodeDetail' = None
    /\ zoomLevel' = ClearedZoom(totalNodeCount)
    /\ RunPipeline(rawNodes, rawEdges, zoomLevel', selectedFiles',
                   impactResult, impactNodeIds, flowTraceResult)
    /\ lastOp' = Op("clearSelection", <<>>)
    /\ UNCHANGED <<graphVars, impactVars, flowTraceResult,
                   loading, currentProject, walk, palette, uiVars, envVars>>

----------------------------------------------------------------------------
\* graphStore.ts: impact

toggleImpactMode ==
    /\ impactMode' = ~impactMode
    /\ impactResult' = (IF impactMode THEN None ELSE impactResult)
    /\ impactNodeIds' = (IF impactMode THEN <<>> ELSE impactNodeIds)
    /\ lastOp' = Op("toggleImpactMode", <<>>)
    /\ UNCHANGED <<graphVars, flowVars, detailVars, zoomLevel, selectedFiles, flowTraceResult,
                   loading, currentProject, walk, palette, uiVars, envVars>>

analyzeImpact(nodeIds) ==
    /\ IsSome(currentProject)
    /\ Issue("impact", None, <<>>, nodeIds)
    /\ lastOp' = Op("analyzeImpact", nodeIds)
    /\ UNCHANGED <<graphVars, flowVars, detailVars, zoomLevel, selectedFiles, impactVars,
                   flowTraceResult, loading, currentProject, walk, palette, uiVars>>

\* after the await: the try block with the result of request r
ImpactLoaded(r) ==
    /\ impactResult' = Some(ImpactOf(r.nodeIds))
    /\ impactNodeIds' = r.nodeIds
    /\ RunPipeline(rawNodes, rawEdges, zoomLevel, selectedFiles,
                   impactResult', impactNodeIds', flowTraceResult)
    /\ UNCHANGED <<graphVars, detailVars, zoomLevel, selectedFiles, impactMode, flowTraceResult,
                   loading, currentProject, walk, palette, uiVars, console>>

\* after the await: the catch block
ImpactLoadFailed(r) ==
    /\ console' = Append(console, "Failed to analyze impact:")
    /\ UNCHANGED <<graphVars, flowVars, detailVars, zoomLevel, selectedFiles, impactVars,
                   flowTraceResult, loading, currentProject, walk, palette, uiVars>>

analyzeImpactResolved(r) ==
    /\ Deliver(r, "impact", TRUE, NoData)
    /\ ImpactLoaded(r)
    /\ lastOp' = Op("analyzeImpactResolved", r.nodeIds)

analyzeImpactRejected(r) ==
    /\ Deliver(r, "impact", FALSE, NoData)
    /\ ImpactLoadFailed(r)
    /\ lastOp' = Op("analyzeImpactRejected", r.nodeIds)

clearImpact ==
    /\ impactResult' = None
    /\ impactNodeIds' = <<>>
    /\ impactMode' = FALSE
    /\ RunPipeline(rawNodes, rawEdges, zoomLevel, selectedFiles,
                   impactResult', impactNodeIds', flowTraceResult)
    /\ lastOp' = Op("clearImpact", <<>>)
    /\ UNCHANGED <<graphVars, detailVars, zoomLevel, selectedFiles, flowTraceResult,
                   loading, currentProject, walk, palette, uiVars, envVars>>

----------------------------------------------------------------------------
\* graphStore.ts: flow trace

traceFlow(nodeId) ==
    /\ flowTraceResult' = Some(TraceResult(rawEdges, nodeId))
    /\ RunPipeline(rawNodes, rawEdges, zoomLevel, selectedFiles,
                   impactResult, impactNodeIds, flowTraceResult')
    /\ lastOp' = Op("traceFlow", nodeId)
    /\ UNCHANGED <<graphVars, detailVars, zoomLevel, selectedFiles, impactVars,
                   loading, currentProject, walk, palette, uiVars, envVars>>

clearFlowTrace ==
    /\ flowTraceResult' = None
    /\ RunPipeline(rawNodes, rawEdges, zoomLevel, selectedFiles,
                   impactResult, impactNodeIds, flowTraceResult')
    /\ lastOp' = Op("clearFlowTrace", <<>>)
    /\ UNCHANGED <<graphVars, detailVars, zoomLevel, selectedFiles, impactVars,
                   loading, currentProject, walk, palette, uiVars, envVars>>

\* updateFlowElements called on its own, the state left as it is; the argument
\* recorded is the operation the call followed
callUpdateFlowElements ==
    /\ RunPipeline(rawNodes, rawEdges, zoomLevel, selectedFiles,
                   impactResult, impactNodeIds, flowTraceResult)
    /\ lastOp' = Op("updateFlowElements", lastOp.op)
    /\ UNCHANGED <<graphVars, detailVars, zoomLevel, selectedFiles, impactVars,
                   flowTraceResult, loading, currentProject, walk, palette, uiVars, envVars>>

\* traceFlow, step by step.  The call builds the adjacency map and enters the
\* while loop; `pushed` records every id handed to queue.push, in order
traceFlowEnter(nodeId) ==
    /\ walk = None
    /\ walk' = Some([origin |-> nodeId, st |-> TraceStart(nodeId), pushed |-> <<nodeId>>])
    /\ lastOp' = Op("traceFlowEnter", nodeId)
    /\ UNCHANGED <<graphVars, flowVars, detailVars, zoomLevel, selectedFiles, impactVars,
                   flowTraceResult, loading, currentProject, palette, uiVars, envVars>>

\* one iteration of the while loop
traceFlowIterate ==
    /\ IsSome(walk)
    /\ Len(Get(walk).st.queue) > 0
    /\ LET w == Get(walk)
           next == WhileIteration(rawEdges, w.st)
           added == SubSeq(next.queue, Len(w.st.queue), Len(next.queue))
       IN walk' = Some([origin |-> w.origin, st |-> next,
                        pushed |-> w.pushed \o [i \in DOMAIN added |-> added[i].id]])
    /\ lastOp' = Op("traceFlowIterate", Get(walk).origin)
    /\ UNCHANGED <<graphVars, flowVars, detailVars, zoomLevel, selectedFiles, impactVars,
                   flowTraceResult, loading, currentProject, palette, uiVars, envVars>>

\* the queue is empty: set({ flowTraceResult }) and updateFlowElements
traceFlowReturn ==
    /\ IsSome(walk)
    /\ Len(Get(walk).st.queue) = 0
    /\ LET result == Some([origin |-> Get(walk).origin,
                           chain |-> Get(walk).st.chain,
                           edgeOrder |-> Get(walk).st.edgeOrder])
       IN /\ flowTraceResult' = result
          /\ RunPipeline(rawNodes, rawEdges, zoomLevel, selectedFiles,
                         impactResult, impactNodeIds, result)
    /\ walk' = None
    /\ lastOp' = Op("traceFlow", Get(walk).origin)
    /\ UNCHANGED <<graphVars, detailVars, zoomLevel, selectedFiles, impactVars,
                   loading, currentProject, palette, uiVars, envVars>>

----------------------------------------------------------------------------
\* uiStore.ts: toasts, and the caller of addToast inside the stores

\* the toast list after addToast(type, message) with the counter at `counter`
AddedToast(list, counter, type, message) ==
    Append(SliceLast(list, MAX_TOASTS_KEPT),
           [id |-> counter + 1, type |-> type, message |-> message])

addBookmark ==
    /\ Issue("bookmark", None, <<>>, <<>>)
    /\ lastOp' = Op("addBookmark", <<>>)
    /\ UNCHANGED <<graphVars, flowVars, detailVars, zoomLevel, selectedFiles, impactVars,
                   flowTraceResult, loading, currentProject, walk, palette, uiVars>>

\* api.createBookmark is fulfilled; the bookmark list is not part of the model
addBookmarkResolved(r) ==
    /\ Deliver(r, "bookmark", TRUE, NoData)
    /\ lastOp' = Op("addBookmarkResolved", <<>>)
    /\ UNCHANGED <<graphVars, flowVars, detailVars, zoomLevel, selectedFiles, impactVars,
                   flowTraceResult, loading, currentProject, walk, palette, uiVars, console>>

\* api.createBookmark is rejected: get().addToast('error', e.message)
addBookmarkRejected(r) ==
    /\ Deliver(r, "bookmark", FALSE, NoData)
    /\ toasts' = AddedToast(toasts, toastCounter, "error", "Request failed")
    /\ toastCounter' = toastCounter + 1
    /\ lastOp' = Op("addBookmarkRejected", <<>>)
    /\ UNCHANGED <<graphVars, flowVars, detailVars, zoomLevel, selectedFiles, impactVars,
                   flowTraceResult, loading, currentProject, walk, palette, console>>

\* the timer addToast set fires: removeToast(id)
removeToast(id) ==
    /\ \E i \in DOMAIN toasts : toasts[i].id = id
    /\ toasts' = SelectSeq(toasts, LAMBDA t : t.id # id)
    /\ lastOp' = Op("removeToast", <<>>)
    /\ UNCHANGED <<graphVars, flowVars, detailVars, zoomLevel, selectedFiles, impactVars,
                   flowTraceResult, loading, currentProject, walk, palette, toastCounter, envVars>>

----------------------------------------------------------------------------
\* The view of the store: small graphs, every operation that changes what is
\* rendered, graph and impact requests overlapping

Graphs == {GraphA, GraphB}
Files == {PathRelA}
ImpactChoices == {<< <<"B">> >>}
TraceOrigins == {<<"B">>}

Next ==
    \/ loadGraph(None)
    \/ \E r \in pending, data \in Graphs : loadGraphResolved(r, data)
    \/ \E r \in pending : loadGraphRejected(r)
    \/ \E level \in ZoomLevels : setZoomLevel(level)
    \/ \E f \in Files : selectFile(f)
    \/ \E f \in Files : toggleFileSelection(f)
    \/ clearSelection
    \/ toggleImpactMode
    \/ \E ids \in ImpactChoices : analyzeImpact(ids)
    \/ \E r \in pending : analyzeImpactResolved(r)
    \/ \E r \in pending : analyzeImpactRejected(r)
    \/ clearImpact
    \/ \E nodeId \in TraceOrigins : traceFlow(nodeId)
    \/ clearFlowTrace
    \/ callUpdateFlowElements

Spec == Init /\ [][Next]_vars

----------------------------------------------------------------------------
\* The requests of the store: graph, node detail, impact and bookmark requests
\* overlapping and failing, the zoom level changing in between

Tabs == {None, Some("classes")}
DetailChoices == {None, Some(<<"B">>), Some(<<"C">>)}

NextAsync ==
    \/ \E tab \in Tabs : loadGraph(tab)
    \/ \E r \in pending, data \in Graphs : loadGraphResolved(r, data)
    \/ \E r \in pending : loadGraphRejected(r)
    \/ \E tab \in Tabs : setActiveTab(tab)
    \/ \E nodeId \in DetailChoices : selectNode(nodeId)
    \/ \E r \in pending : selectNodeResolved(r)
    \/ \E r \in pending : selectNodeRejected(r)
    \/ \E ids \in ImpactChoices : analyzeImpact(ids)
    \/ \E r \in pending : analyzeImpactResolved(r)
    \/ \E r \in pending : analyzeImpactRejected(r)
    \/ addBookmark
    \/ \E r \in pending : addBookmarkResolved(r)
    \/ \E r \in pending : addBookmarkRejected(r)
    \/ \E i \in DOMAIN toasts : removeToast(toasts[i].id)
    \/ \E level \in {"files", "functions"} : setZoomLevel(level)

SpecAsync == Init /\ [][NextAsync]_vars

----------------------------------------------------------------------------
\* The limits of the store: graphs with more nodes, or more edges, than may be
\* rendered, one request at a time

LargeGraphs == {GraphManyNodes, GraphManyEdges}
LargeFiles == {PathB}
LargeTraceOrigins == {NodeIdOf(1)}
LargeImpactChoices == {<<NodeIdOf(2)>>}

NextCap ==
    \/ (pending = {} /\ loadGraph(None))
    \/ \E r \in pending, data \in LargeGraphs : loadGraphResolved(r, data)
    \/ \E level \in ZoomLevels : setZoomLevel(level)
    \/ \E f \in LargeFiles : selectFile(f)
    \/ \E f \in LargeFiles : toggleFileSelection(f)
    \/ clearSelection
    \/ \E nodeId \in LargeTraceOrigins : traceFlow(nodeId)
    \/ clearFlowTrace
    \/ \E ids \in LargeImpactChoices : (pending = {} /\ analyzeImpact(ids))
    \/ \E r \in pending : analyzeImpactResolved(r)
    \/ clearImpact

SpecCap == Init /\ [][NextCap]_vars

----------------------------------------------------------------------------
\* The file filter: four selectable paths over a graph whose node paths are
\* absolute, relative and near misses

PathChoices == {PathRelA, PathSlashA, PathA, PathX}

NextPaths ==
    \/ (pending = {} /\ loadGraph(None))
    \/ \E r \in pending : loadGraphResolved(r, GraphPaths)
    \/ \E level \in ZoomLevels : setZoomLevel(level)
    \/ \E f \in PathChoices : selectFile(f)
    \/ \E f \in PathChoices : toggleFileSelection(f)
    \/ clearSelection

SpecPaths == Init /\ [][NextPaths]_vars

----------------------------------------------------------------------------
\* The file selection: six selectable paths, one more than may be selected

ManyFiles == {PathRelA, PathSlashA, PathRA, PathA, PathB, PathX}

NextFiles ==
    \/ \E f \in ManyFiles : selectFile(f)
    \/ \E f \in ManyFiles : toggleFileSelection(f)
    \/ clearSelection

SpecFiles == Init /\ [][NextFiles]_vars

----------------------------------------------------------------------------
\* The flow trace: every list of up to MaxTraceEdges edges between three nodes,
\* two of them with a "-" in the id, loaded; traceFlow from every node

MaxTraceEdges == 3
MaxLayoutNodes == 17

TraceIds == {<<"a">>, <<"a", "-", "b">>, <<"b", "-", "a">>}

TraceEdgeKinds ==
    {GraphEdge(src, dst, type) : src \in TraceIds, dst \in TraceIds, type \in {"calls", "imports"}}

TraceGraphs ==
    {[nodes |-> << GraphNode(<<"a">>, "function", PathA),
                   GraphNode(<<"a", "-", "b">>, "function", PathA),
                   GraphNode(<<"b", "-", "a">>, "class", PathB) >>,
      edges |-> edges] :
        edges \in UNION {[1..n -> TraceEdgeKinds] : n \in 0..MaxTraceEdges}}

\* the state after loadGraph(projectId) has been called on the stores as
\* created and fulfilled with `data`
InitLoaded(data) ==
    LET out == updateFlowElements(data.nodes, data.edges, "functions", <<>>, None, <<>>, None)
    IN /\ rawNodes = data.nodes /\ rawEdges = data.edges
       /\ flowNodes = out.flowNodes /\ flowEdges = out.flowEdges
       /\ truncated = out.truncated
       /\ activeTab = None
       /\ selectedNodeId = None /\ nodeDetail = None
       /\ zoomLevel = AutoZoom(Len(data.nodes), <<>>, "functions")
       /\ selectedFiles = <<>>
       /\ impactMode = FALSE /\ impactResult = None /\ impactNodeIds = <<>>
       /\ flowTraceResult = None
       /\ loading = FALSE /\ totalNodeCount = Len(data.nodes)
       /\ currentProject = Some(Project)
       /\ walk = None
       /\ palette = PaletteMounted
       /\ toasts = <<>> /\ toastCounter = 0
       /\ pending = {} /\ issued = 1 /\ console = <<>>
       /\ delivered = Some([seq |-> 1, tab |-> None, nodes |-> data.nodes,
                             edges |-> data.edges, newest |-> 1])
       /\ lastOp = Op("loadGraphResolved", None)

InitTrace == \E data \in TraceGraphs : InitLoaded(data)

NextTrace ==
    \/ \E nodeId \in TraceIds : traceFlow(nodeId)
    \/ clearFlowTrace

SpecTrace == InitTrace /\ [][NextTrace]_vars

----------------------------------------------------------------------------
\* The loop of traceFlow, one iteration at a time.  The call runs to its end
\* without interruption, so an iteration that can run does run

\* the graphs whose edges are all calls edges: the edges the loop follows
WalkGraphs ==
    {data \in TraceGraphs : \A i \in DOMAIN data.edges : data.edges[i].type = "calls"}

InitWalk == \E data \in WalkGraphs : InitLoaded(data)

NextWalk ==
    \/ \E nodeId \in TraceIds : traceFlowEnter(nodeId)
    \/ traceFlowIterate
    \/ traceFlowReturn

SpecWalk ==
    /\ InitWalk
    /\ [][NextWalk]_vars
    /\ WF_vars(traceFlowIterate)

----------------------------------------------------------------------------
\* The choice of layout: graphs of up to MaxLayoutNodes nodes, every third a
\* file, of which the first `linked` are joined by a chain of calls edges

LayoutGraph(n, linked) ==
    [nodes |-> [i \in 1..n |->
                  GraphNode(NodeIdOf(i), IF i % 3 = 0 THEN "file" ELSE "function", PathA)],
     edges |-> [i \in 1..(IF linked >= 2 THEN linked - 1 ELSE 0) |->
                  GraphEdge(NodeIdOf(i), NodeIdOf(i + 1), "calls")]]

LayoutGraphs == {LayoutGraph(n, linked) : n \in 0..MaxLayoutNodes, linked \in 0..MaxLayoutNodes}

InitLayout == \E data \in LayoutGraphs : InitLoaded(data)

NextLayout ==
    \/ \E level \in ZoomLevels : setZoomLevel(level)
    \/ clearSelection

SpecLayout == InitLayout /\ [][NextLayout]_vars

----------------------------------------------------------------------------
\* The badges: a function or class F of file a with up to three outgoing and up to two
\* incoming edges, the callers in a test file and in file b, and a graph with
\* more edges than may be rendered; zoom level and file selection vary

BadgeGraph(type, outs, ins) ==
    LET F == <<"F">>
        targets == << <<"X", "1">>, <<"X", "2">>, <<"X", "3">> >>
        sources == << <<"Y", "1">>, <<"Y", "2">> >>
        targetEdgeTypes == <<"calls", "imports", "calls">>
    IN [nodes |-> << GraphNode(F, type, PathA),
                     GraphNode(targets[1], "class", PathA),
                     GraphNode(targets[2], "function", PathA),
                     GraphNode(targets[3], "class", PathB),
                     GraphNode(sources[1], "function", PathTest),
                     GraphNode(sources[2], "class", PathB) >>,
        edges |-> [i \in 1..outs |-> GraphEdge(F, targets[i], targetEdgeTypes[i])]
                  \o [i \in 1..ins |-> GraphEdge(sources[i], F, "calls")]
                  \o << GraphEdge(sources[1], targets[1], "calls"),
                        GraphEdge(sources[2], targets[3], "calls") >>]

BadgeGraphs ==
    {BadgeGraph(type, outs, ins) : type \in {"function", "class"}, outs \in 0..3, ins \in 0..2}
        \cup {GraphManyEdges}

InitBadges == \E data \in BadgeGraphs : InitLoaded(data)

NextBadges ==
    \/ \E level \in ZoomLevels : setZoomLevel(level)
    \/ \E f \in {PathRelA, PathB} : toggleFileSelection(f)
    \/ clearSelection

SpecBadges == InitBadges /\ [][NextBadges]_vars

----------------------------------------------------------------------------
\* The search palette: the query changes among a few values, some of them
\* shorter than two characters once trimmed, while time passes

SearchQueries ==
    {<<>>, <<"a">>, <<"a", " ">>, <<"a", "b">>, <<" ", "a", "b">>, <<" ", " ", " ">>}

NextSearch ==
    \/ \E q \in SearchQueries : setQuery(q)
    \/ timePasses
    \/ \E t \in palette.timers : timerFires(t)
    \/ \E i \in DOMAIN palette.sent : searchSettled(i)

SpecSearch == Init /\ [][NextSearch]_vars

----------------------------------------------------------------------------
\* Properties

\* the ids of the rendered nodes, and source, target and type of the rendered edges
RenderedIds == {flowNodes[i].id : i \in DOMAIN flowNodes}
RenderedEdges ==
    {<<flowEdges[i].source, flowEdges[i].target, flowEdges[i].edgeType>> : i \in DOMAIN flowEdges}

\* both ends of the raw edge e are among the node ids
EndpointsIn(e, ids) == e.source_id \in ids /\ e.target_id \in ids

\* the raw edge e is among the edges
AppearsIn(e, shown) == <<e.source_id, e.target_id, e.type>> \in shown

\* C1: in every reachable state at most 300 nodes and at most 500 edges are
\* rendered.
C1_RenderCaps ==
    /\ Len(flowNodes) <= MAX_RENDERED_NODES
    /\ Len(flowEdges) <= MAX_RENDERED_EDGES

\* a graph of more than 300 nodes is loaded, all of them pass the filters, and
\* exactly 300 are rendered
C1_Witness ==
    /\ Len(rawNodes) > MAX_RENDERED_NODES
    /\ zoomLevel = "functions" /\ selectedFiles = <<>>
    /\ truncated
    /\ Len(flowNodes) = MAX_RENDERED_NODES

\* C2 as stated: a raw edge is rendered exactly when both its ends are rendered.
C2_AsStated ==
    LET ids == RenderedIds
        shown == RenderedEdges
    IN \A i \in DOMAIN rawEdges : AppearsIn(rawEdges[i], shown) <=> EndpointsIn(rawEdges[i], ids)

\* C2, amended: a rendered raw edge has both its ends rendered; and when at
\* most 500 raw edges have both ends rendered, a raw edge is rendered exactly
\* when both its ends are rendered.
C2_EdgesBetweenRendered ==
    LET ids == RenderedIds
        shown == RenderedEdges
        between == {i \in DOMAIN rawEdges : EndpointsIn(rawEdges[i], ids)}
    IN /\ \A i \in DOMAIN rawEdges : AppearsIn(rawEdges[i], shown) => i \in between
       /\ Cardinality(between) <= MAX_RENDERED_EDGES
            => \A i \in between : AppearsIn(rawEdges[i], shown)

\* one raw edge is rendered, another has lost an end to the node limit and is
\* not rendered
C2_Witness ==
    LET ids == RenderedIds
        shown == RenderedEdges
    IN /\ truncated
       /\ \E i \in DOMAIN rawEdges :
             EndpointsIn(rawEdges[i], ids) /\ AppearsIn(rawEdges[i], shown)
       /\ \E i \in DOMAIN rawEdges :
             /\ rawEdges[i].target_id \in ids
             /\ rawEdges[i].source_id \notin ids
             /\ ~AppearsIn(rawEdges[i], shown)

\* what updateFlowElements computes from the state as it is
PipelineOutput ==
    updateFlowElements(rawNodes, rawEdges, zoomLevel, selectedFiles,
                       impactResult, impactNodeIds, flowTraceResult)

\* the rendered output is the output of the pipeline on the state as it is
InSync ==
    LET out == PipelineOutput
    IN flowNodes = out.flowNodes /\ flowEdges = out.flowEdges /\ truncated = out.truncated

ViewModeMutations ==
    {"setZoomLevel", "selectFile", "toggleFileSelection", "clearSelection",
     "toggleImpactMode", "clearImpact", "traceFlow", "clearFlowTrace",
     "loadGraphResolved", "analyzeImpactResolved"}

\* C3 as stated: after every view-mode mutation, toggleImpactMode among them,
\* the rendered nodes, the rendered edges and the truncated flag are the output
\* of the pipeline on the state the mutation left.
C3_AsStated == lastOp.op \in ViewModeMutations => InSync

\* toggleImpactMode has dropped the impact result, and the rendered nodes
\* still carry its colours
C3_Lagging ==
    /\ lastOp.op = "toggleImpactMode"
    /\ impactResult = None
    /\ \E i \in DOMAIN flowNodes : flowNodes[i].borderColor = colors.impactDirect
    /\ ~InSync

\* C4: the raw graph and the active tab are those of the graph request that
\* was fulfilled last, whatever the order of issue, and the pipeline has run on
\* them; before any is fulfilled they are as constructed.
C4_LastCompletedLoad ==
    /\ IF IsSome(delivered)
       THEN /\ rawNodes = Get(delivered).nodes
            /\ rawEdges = Get(delivered).edges
            /\ activeTab = Get(delivered).tab
       ELSE rawNodes = <<>> /\ rawEdges = <<>> /\ activeTab = None
    /\ lastOp.op = "loadGraphResolved" => InSync

\* two graph requests were in flight, the one issued later was fulfilled first,
\* and the store now holds the data of the one issued earlier
C4_StaleOverwrites ==
    /\ lastOp.op = "loadGraphResolved"
    /\ IsSome(delivered)
    /\ Get(delivered).seq < Get(delivered).newest
    /\ rawNodes = Get(delivered).nodes
    /\ activeTab = Get(delivered).tab
    /\ ~loading

\* C5: a rejected graph request changes none of rawNodes, rawEdges, flowNodes,
\* flowEdges, activeTab, zoomLevel, totalNodeCount and truncated, is caught (the
\* catch block logs it) and leaves loading false; a rejected impact request
\* changes neither impactResult nor impactNodeIds.
C5_RejectionKeepsState ==
    [][/\ lastOp'.op = "loadGraphRejected" =>
            /\ UNCHANGED <<rawNodes, rawEdges, flowNodes, flowEdges, activeTab,
                           zoomLevel, totalNodeCount, truncated>>
            /\ console' = Append(console, "Failed to load graph:")
            /\ loading' = FALSE
       /\ lastOp'.op = "analyzeImpactRejected" =>
            /\ UNCHANGED <<impactResult, impactNodeIds>>
            /\ console' = Append(console, "Failed to analyze impact:")]_vars

\* a graph request has just been rejected while the store holds a graph
C5_Witness ==
    /\ lastOp.op = "loadGraphRejected"
    /\ rawNodes # <<>> /\ flowNodes # <<>>
    /\ ~loading

RejectedFetches == {"loadGraphRejected", "selectNodeRejected", "analyzeImpactRejected"}

\* C6 as stated: the rejection of a graph, node-detail or impact request adds
\* a toast to the toast list.
C6_AsStated ==
    [][lastOp'.op \in RejectedFetches /\ pending' # pending =>
         /\ toastCounter' = toastCounter + 1
         /\ Len(toasts') > 0
         /\ toasts'[Len(toasts')].id = toastCounter']_vars

\* a graph request has just been rejected and logged, and no toast was ever added
C6_SilentRejection ==
    /\ lastOp.op = "loadGraphRejected"
    /\ Len(console) > 0
    /\ toastCounter = 0 /\ toasts = <<>>

\* a node of this type is shown at this zoom level
ShownAt(type, zoom) ==
    CASE zoom = "modules" -> type = "file"
      [] zoom = "files" -> type \in {"file", "class"}
      [] zoom = "functions" -> TRUE

\* the ids of the raw nodes shown at the current zoom level
ZoomedIds == {rawNodes[i].id : i \in {j \in DOMAIN rawNodes : ShownAt(rawNodes[j].type, zoomLevel)}}

\* C7: every rendered node is of a type shown at the current zoom level (file
\* at modules, file or class at files, any at functions), and with no file
\* selected and no more than 300 such nodes the rendered nodes are exactly the
\* raw nodes of those types.
C7_ZoomFilter ==
    /\ \A i \in DOMAIN flowNodes : ShownAt(flowNodes[i].nodeType, zoomLevel)
    /\ RenderedIds \subseteq ZoomedIds
    /\ selectedFiles = <<>> /\ ~truncated => RenderedIds = ZoomedIds

\* at the zoom level files, a graph with files, classes and functions is
\* rendered without its functions
C7_Witness ==
    /\ zoomLevel = "files" /\ selectedFiles = <<>>
    /\ \E i \in DOMAIN rawNodes : rawNodes[i].type = "function"
    /\ \E i \in DOMAIN flowNodes : flowNodes[i].nodeType = "class"
    /\ \E i \in DOMAIN flowNodes : flowNodes[i].nodeType = "file"
    /\ Len(flowNodes) < Len(rawNodes)

\* the path is a selected path or ends with "/" and a selected path
AcceptsAsSelected(file_path, files) ==
    \E i \in DOMAIN files :
        file_path = files[i] \/ EndsWith(file_path, <<"/">> \o files[i])

\* the same, a selected path also taken without its leading "/"
AcceptsSlashStripped(file_path, files) ==
    \E i \in DOMAIN files :
        \/ file_path = files[i]
        \/ EndsWith(file_path, <<"/">> \o files[i])
        \/ /\ Len(files[i]) > 0 /\ files[i][1] = "/"
           /\ EndsWith(file_path, <<"/">> \o Tail(files[i]))

\* the ids of the raw nodes shown at the current zoom level whose path is
\* accepted for the selected files, the selected paths taken as they are
IdsAsSelected ==
    {rawNodes[i].id : i \in {j \in DOMAIN rawNodes :
                               /\ ShownAt(rawNodes[j].type, zoomLevel)
                               /\ AcceptsAsSelected(rawNodes[j].file_path, selectedFiles)}}

\* the same, a selected path also taken without its leading "/"
IdsSlashStripped ==
    {rawNodes[i].id : i \in {j \in DOMAIN rawNodes :
                               /\ ShownAt(rawNodes[j].type, zoomLevel)
                               /\ AcceptsSlashStripped(rawNodes[j].file_path, selectedFiles)}}

\* C8 as stated: with files selected, the nodes kept are those that pass the
\* zoom filter and whose path is a selected path or ends with "/" and a
\* selected path taken exactly as selected; with none kept, nothing is rendered.
C8_AsStated ==
    selectedFiles # <<>> /\ ~truncated =>
        /\ RenderedIds = IdsAsSelected
        /\ RenderedIds = {} => flowNodes = <<>> /\ flowEdges = <<>>

\* C8, amended: with files selected, the nodes kept are those that pass the
\* zoom filter and whose path is a selected path, or ends with "/" and a
\* selected path, or ends with "/" and a selected path without its leading
\* "/"; with none kept, nothing is rendered.
C8_FileFilter ==
    selectedFiles # <<>> /\ ~truncated =>
        /\ RenderedIds = IdsSlashStripped
        /\ RenderedIds = {} => flowNodes = <<>> /\ flowEdges = <<>>

\* the path selected is "/a", and a node of the file "/r/a" is rendered
C8_Witness ==
    /\ selectedFiles = <<PathSlashA>>
    /\ \E i \in DOMAIN flowNodes : flowNodes[i].filePath = PathA

\* C9: right after selectFile or toggleFileSelection the zoom level is
\* functions; right after clearSelection no file is selected and the zoom level
\* is modules if the loaded graph has more than 300 nodes, functions otherwise.
C9_SelectionZoom ==
    /\ lastOp.op \in {"selectFile", "toggleFileSelection"} => zoomLevel = "functions"
    /\ lastOp.op = "clearSelection" =>
          /\ selectedFiles = <<>>
          /\ zoomLevel = IF totalNodeCount > 300 THEN "modules" ELSE "functions"

\* clearSelection has just run on a graph of more than 300 nodes
C9_Witness ==
    /\ lastOp.op = "clearSelection"
    /\ totalNodeCount > 300
    /\ Len(rawNodes) = totalNodeCount
    /\ zoomLevel = "modules"

NoDuplicates(files) == \A i, j \in DOMAIN files : files[i] = files[j] => i = j

\* C10: at most 5 paths are selected and none twice; selectFile leaves exactly
\* its path selected; toggleFileSelection removes its path if selected, appends
\* it at the end if not selected and fewer than 5 are, and changes nothing if 5
\* others are selected.
C10_SelectionAtMostFive ==
    /\ [](Len(selectedFiles) <= 5 /\ NoDuplicates(selectedFiles))
    /\ [][/\ lastOp'.op = "selectFile" => selectedFiles' = <<lastOp'.arg>>
          /\ lastOp'.op = "toggleFileSelection" =>
                selectedFiles' =
                    IF \E i \in DOMAIN selectedFiles : selectedFiles[i] = lastOp'.arg
                    THEN SelectSeq(selectedFiles, LAMBDA f : f # lastOp'.arg)
                    ELSE IF Len(selectedFiles) < 5
                    THEN selectedFiles \o <<lastOp'.arg>>
                    ELSE selectedFiles]_vars

\* a sixth path has just been toggled and is not selected
C10_Witness ==
    /\ lastOp.op = "toggleFileSelection"
    /\ Len(selectedFiles) = 5
    /\ \A i \in DOMAIN selectedFiles : selectedFiles[i] # lastOp.arg

\* the priorities of the node types as the limit is described
NodePriorityOf(type) ==
    CASE type = "class" -> 0 [] type = "file" -> 1 [] type = "function" -> 2
      [] type = "variable" -> 3 [] type = "import" -> 4 [] type = "module" -> 5
      [] OTHER -> 9

NodePriorities == {0, 1, 2, 3, 4, 5, 9}

\* the ids of the raw nodes that pass the zoom filter and the file filter, in
\* rawNodes order
FilteredNodes == FileFilter(ZoomFilter(rawNodes, zoomLevel), selectedFiles)

EdgePriorityOf(type) ==
    CASE type = "calls" -> 0 [] type = "inherits" -> 1 [] type = "imports" -> 2
      [] type = "composes" -> 3 [] type = "reads" -> 4 [] type = "writes" -> 5
      [] type = "tests" -> 6 [] OTHER -> 9

EdgePriorities == {0, 1, 2, 3, 4, 5, 6, 9}

\* the raw edges with both ends rendered, in rawEdges order
EdgesOfRendered ==
    LET ids == RenderedIds
    IN SelectSeq(rawEdges, LAMBDA e : EndpointsIn(e, ids))

\* C12: with more than 500 raw edges between rendered nodes, 500 edges are
\* rendered in ascending type priority, the rendered edges of each priority
\* are the first of that priority in rawEdges order, and a priority of which
\* an edge is dropped is the highest priority number rendered.
C12_EdgeCap ==
    LET between == EdgesOfRendered
    IN Len(between) > 500 =>
        /\ Len(flowEdges) = 500
        /\ \A i \in 1..(Len(flowEdges) - 1) :
              EdgePriorityOf(flowEdges[i].edgeType) <= EdgePriorityOf(flowEdges[i + 1].edgeType)
        /\ \A p \in EdgePriorities :
              LET all == SelectSeq(between, LAMBDA e : EdgePriorityOf(e.type) = p)
                  shown == SelectSeq(flowEdges, LAMBDA e : EdgePriorityOf(e.edgeType) = p)
              IN /\ Len(shown) <= Len(all)
                 /\ \A i \in DOMAIN shown :
                       /\ shown[i].source = all[i].source_id
                       /\ shown[i].target = all[i].target_id
                       /\ shown[i].edgeType = all[i].type
                 /\ Len(shown) < Len(all) =>
                       \A i \in DOMAIN flowEdges : EdgePriorityOf(flowEdges[i].edgeType) <= p

\* 501 raw edges lie between rendered nodes, the last raw edge is rendered and
\* an earlier one, of an unknown type, is not
C12_Witness ==
    LET shown == RenderedEdges
    IN /\ Len(EdgesOfRendered) = 501
       /\ Len(flowEdges) = 500
       /\ AppearsIn(rawEdges[Len(rawEdges)], shown)
       /\ \E i \in DOMAIN rawEdges :
             /\ EdgePriorityOf(rawEdges[i].type) = 9
             /\ i < Len(rawEdges)
             /\ ~AppearsIn(rawEdges[i], shown)

\* C13: the chain of the held trace names no node twice and never the origin,
\* and the order of its i-th entry (counting from 1) is i.
C13_ChainOrder ==
    IsSome(flowTraceResult) =>
        LET t == Get(flowTraceResult)
        IN /\ \A i, j \in DOMAIN t.chain : t.chain[i].nodeId = t.chain[j].nodeId => i = j
           /\ \A i \in DOMAIN t.chain : t.chain[i].nodeId # t.origin
           /\ \A i \in DOMAIN t.chain : t.chain[i].order = i

\* a trace of two nodes over edges that call back into the origin, with a
\* self-loop or a repeated edge among them
C13_Witness ==
    /\ IsSome(flowTraceResult)
    /\ Len(Get(flowTraceResult).chain) = 2
    /\ \E i \in DOMAIN rawEdges :
          rawEdges[i].type = "calls" /\ rawEdges[i].target_id = Get(flowTraceResult).origin
    /\ \E i, j \in DOMAIN rawEdges :
          \/ rawEdges[i].type = "calls" /\ rawEdges[i].source_id = rawEdges[i].target_id
          \/ i # j /\ rawEdges[i] = rawEdges[j]

\* the targets of the calls edges that leave a node of S
CallTargets(S) ==
    {rawEdges[i].target_id :
        i \in {j \in DOMAIN rawEdges : rawEdges[j].type = "calls" /\ rawEdges[j].source_id \in S}}

\* S and everything a path of calls edges leads to from S
RECURSIVE CallClosure(_)
CallClosure(S) ==
    LET T == S \cup CallTargets(S)
    IN IF T = S THEN S ELSE CallClosure(T)

\* the nodes a path of one or more calls edges leads to from the origin
ReachableByCalls(origin) == CallClosure(CallTargets({origin}))

\* C14: the nodes of the chain are the nodes other than the origin that a path
\* of one or more calls edges leads to from the origin; with no calls edge
\* leaving the origin the chain and edgeOrder are empty.
C14_ChainIsReachable ==
    IsSome(flowTraceResult) =>
        LET t == Get(flowTraceResult)
        IN /\ {t.chain[i].nodeId : i \in DOMAIN t.chain} = ReachableByCalls(t.origin) \ {t.origin}
           /\ CallTargets({t.origin}) = {} => t.chain = <<>> /\ DOMAIN t.edgeOrder = {}

\* an imports edge leaves the origin for a node the chain does not name, while
\* a calls edge leads to one it does
C14_Witness ==
    /\ IsSome(flowTraceResult)
    /\ Len(Get(flowTraceResult).chain) = 1
    /\ \E i \in DOMAIN rawEdges :
          /\ rawEdges[i].type = "imports"
          /\ rawEdges[i].source_id = Get(flowTraceResult).origin
          /\ rawEdges[i].target_id # Get(flowTraceResult).origin
          /\ rawEdges[i].target_id # Get(flowTraceResult).chain[1].nodeId

\* C15: no id is handed to queue.push twice during a traceFlow call, and every
\* call that has entered its loop leaves it: the queue becomes empty, which
\* is the exit condition of the while loop, cycles and self-calls included.
C15_TraceTerminates ==
    /\ [](IsSome(walk) => NoDuplicates(Get(walk).pushed))
    /\ (IsSome(walk) ~> (walk = None \/ Len(Get(walk).st.queue) = 0))

\* the loop has run three iterations on edges that call back into the origin,
\* and the queue is empty
C15_Witness ==
    /\ IsSome(walk)
    /\ Len(Get(walk).pushed) = 3
    /\ Get(walk).st.queue = <<>>
    /\ \E i \in DOMAIN rawEdges :
          /\ rawEdges[i].type = "calls"
          /\ rawEdges[i].target_id = Get(walk).origin
          /\ rawEdges[i].source_id # Get(walk).origin
          /\ rawEdges[i].source_id \in Range(Get(walk).pushed)

\* the operations that run updateFlowElements
PipelineOps == (ViewModeMutations \ {"toggleImpactMode"}) \cup {"updateFlowElements"}

\* the last step ran updateFlowElements
PipelineRan == lastOp.op \in PipelineOps

\* the ids the held impact result names as directly and as indirectly affected
DirectIds ==
    {Get(impactResult).directly_affected[i].id : i \in DOMAIN Get(impactResult).directly_affected}
IndirectIds ==
    {Get(impactResult).indirectly_affected[i].id :
        i \in DOMAIN Get(impactResult).indirectly_affected}
SelectedIds == {impactNodeIds[i] : i \in DOMAIN impactNodeIds}

StyledAs(fn, colour, opacity) == fn.borderColor = colour /\ fn.opacity = opacity

ChainIds == {Get(flowTraceResult).chain[i].nodeId : i \in DOMAIN Get(flowTraceResult).chain}

ImpactColours ==
    {colors.impactSelected, colors.impactDirect, colors.impactIndirect, colors.impactDimmed}

\* C17: after a pipeline run, with a flow trace held the origin has the accent
\* colour, a chain member the tested colour, both at opacity 1, and every other
\* node is dimmed at opacity 0.15, whether or not an impact result is held;
\* with only an impact result held every node has an impact colour; with
\* neither held every node has the colour of its type at opacity 1.
C17_StylePrecedence ==
    PipelineRan =>
        \A i \in DOMAIN flowNodes :
            LET fn == flowNodes[i] IN
            IF IsSome(flowTraceResult)
            THEN /\ fn.id = Get(flowTraceResult).origin => StyledAs(fn, colors.accent, 100)
                 /\ (fn.id # Get(flowTraceResult).origin /\ fn.id \in ChainIds)
                       => StyledAs(fn, colors.tested, 100)
                 /\ (fn.id # Get(flowTraceResult).origin /\ fn.id \notin ChainIds)
                       => StyledAs(fn, colors.impactDimmed, 15)
            ELSE IF IsSome(impactResult)
            THEN fn.borderColor \in ImpactColours
            ELSE StyledAs(fn, nodeTypeColors(fn.nodeType), 100)

\* a flow trace and an impact result are both held: the origin is in
\* impactNodeIds, a chain member is directly affected, and a node outside the
\* trace is indirectly affected
C17_Witness ==
    /\ PipelineRan
    /\ IsSome(flowTraceResult)
    /\ IsSome(impactResult)
    /\ \E i \in DOMAIN flowNodes :
          flowNodes[i].id = Get(flowTraceResult).origin /\ flowNodes[i].id \in SelectedIds
    /\ \E i \in DOMAIN flowNodes : flowNodes[i].id \in ChainIds \cap DirectIds
    /\ \E i \in DOMAIN flowNodes :
          /\ flowNodes[i].id \in IndirectIds
          /\ flowNodes[i].id \notin ChainIds \cup {Get(flowTraceResult).origin}

\* the endpoints of the rendered edges
ConnectedIds ==
    {flowEdges[i].source : i \in DOMAIN flowEdges} \cup {flowEdges[i].target : i \in DOMAIN flowEdges}

\* more than ten nodes, and no edge or disconnectedRatio above one half:
\* (n - c) / n > 1/2 is 2 * (n - c) > n
SparseAndLarge ==
    LET n == Len(flowNodes)
    IN /\ n > 10
       /\ \/ Len(flowEdges) = 0
          \/ 2 * (n - Cardinality(ConnectedIds)) > n

\* the rendered nodes stand on the grid: row by row, ceil(sqrt(n)) to a row
OnGrid ==
    \A k \in DOMAIN flowNodes :
        LET cols == CeilSqrt(Len(flowNodes))
        IN flowNodes[k].position = [x |-> ((k - 1) % cols) * (NODE_WIDTH + 40) + 40,
                                    y |-> ((k - 1) \div cols) * (NODE_HEIGHT + 30) + 40]

\* the rendered nodes stand where the hierarchical layout put them
Hierarchical ==
    \A k \in DOMAIN flowNodes :
        LET c == DagreNode(flowNodes, flowEdges, flowNodes[k].id)
        IN flowNodes[k].position = [x |-> c.x - NODE_WIDTH \div 2, y |-> c.y - NODE_HEIGHT \div 2]

\* C18: after a pipeline run the rendered nodes stand on the grid if there are
\* more than 10 of them and either no edge is rendered or more than half of
\* them are the endpoint of no rendered edge; in every other case, ten nodes
\* or fewer and no node at all included, they stand where the hierarchical
\* layout put them.
C18_GridIffSparse ==
    PipelineRan =>
        /\ SparseAndLarge => OnGrid /\ ~Hierarchical
        /\ ~SparseAndLarge => Hierarchical /\ (flowNodes # <<>> => ~OnGrid)

\* the zoom level was set and twelve nodes are rendered, six of them on edges:
\* the ratio is exactly one half and the layout is the hierarchical one
C18_Witness ==
    /\ lastOp.op = "setZoomLevel"
    /\ Len(flowNodes) = 12
    /\ Cardinality(ConnectedIds) = 6
    /\ Hierarchical

\* what updateFlowElements reads from the store
PipelineInputs ==
    <<rawNodes, rawEdges, zoomLevel, selectedFiles, impactResult, impactNodeIds,
      flowTraceResult>>

DiscoveredOverCallsEdge(i) ==
    LET t == Get(flowTraceResult)
        c == t.chain[i]
    IN \E j \in DOMAIN rawEdges :
          /\ rawEdges[j].type = "calls"
          /\ rawEdges[j].target_id = c.nodeId
          /\ EdgeId(rawEdges[j].source_id, rawEdges[j].target_id) = c.parentEdgeId
          /\ \/ rawEdges[j].source_id = t.origin
             \/ \E k \in 1..(i - 1) : t.chain[k].nodeId = rawEdges[j].source_id

\* C20 as stated: in the held result of traceFlow, edgeOrder has exactly one
\* entry per chain element, it maps the parentEdgeId of every chain entry to
\* the order of that entry, every parentEdgeId is the id of a calls edge into
\* the entry's node from the origin or an earlier chain node, and edgeOrder
\* has no key that is not the parentEdgeId of a chain entry.
C20_AsStated ==
    IsSome(flowTraceResult) =>
        LET t == Get(flowTraceResult) IN
        /\ Cardinality(DOMAIN t.edgeOrder) = Len(t.chain)
        /\ \A i \in DOMAIN t.chain :
              /\ t.chain[i].parentEdgeId \in DOMAIN t.edgeOrder
              /\ t.edgeOrder[t.chain[i].parentEdgeId] = t.chain[i].order
              /\ DiscoveredOverCallsEdge(i)
        /\ DOMAIN t.edgeOrder = {t.chain[i].parentEdgeId : i \in DOMAIN t.chain}

\* two chain entries were discovered over different edges with one edge id:
\* edgeOrder has one entry for the two, holding the order of the later one
C20_EdgeIdCollision ==
    /\ IsSome(flowTraceResult)
    /\ LET t == Get(flowTraceResult) IN
       /\ Len(t.chain) = 2
       /\ t.chain[1].parentEdgeId = t.chain[2].parentEdgeId
       /\ Cardinality(DOMAIN t.edgeOrder) = 1
       /\ t.edgeOrder[t.chain[1].parentEdgeId] = 2
       /\ t.chain[1].order = 1

\* the number of raw edges with both ends rendered that enter, and that leave,
\* the node id
BetweenInto(id) ==
    Cardinality({j \in DOMAIN rawEdges :
                   EndpointsIn(rawEdges[j], RenderedIds) /\ rawEdges[j].target_id = id})
BetweenOutOf(id) ==
    Cardinality({j \in DOMAIN rawEdges :
                   EndpointsIn(rawEdges[j], RenderedIds) /\ rawEdges[j].source_id = id})

\* the number of rendered edges that enter, and that leave, the node id
RenderedInto(id) == Cardinality({j \in DOMAIN flowEdges : flowEdges[j].target = id})
RenderedOutOf(id) == Cardinality({j \in DOMAIN flowEdges : flowEdges[j].source = id})

\* C21 as stated: the incoming (outgoing) count of every rendered node is the
\* number of rendered edges whose target (source) it is.
C21_AsStated ==
    \A i \in DOMAIN flowNodes :
        /\ flowNodes[i].incomingCount = RenderedInto(flowNodes[i].id)
        /\ flowNodes[i].outgoingCount = RenderedOutOf(flowNodes[i].id)

\* C21, amended: the incoming (outgoing) count of every rendered node is the
\* number of raw edges with both ends rendered whose target (source) it is,
\* whether or not the edge limit has dropped them; when at most 500 raw edges
\* have both ends rendered, it is the number of rendered edges whose target
\* (source) it is.
C21_CountsBetweenRendered ==
    /\ \A i \in DOMAIN flowNodes :
          /\ flowNodes[i].incomingCount = BetweenInto(flowNodes[i].id)
          /\ flowNodes[i].outgoingCount = BetweenOutOf(flowNodes[i].id)
    /\ Len(EdgesOfRendered) <= MAX_RENDERED_EDGES => C21_AsStated

\* the zoom level was set, more than 500 raw edges have both ends rendered, and
\* a rendered node counts an incoming edge that is not rendered
C21_Witness ==
    /\ lastOp.op = "setZoomLevel"
    /\ Len(EdgesOfRendered) > MAX_RENDERED_EDGES
    /\ \E i \in DOMAIN flowNodes :
          /\ flowNodes[i].incomingCount = BetweenInto(flowNodes[i].id)
          /\ flowNodes[i].incomingCount > RenderedInto(flowNodes[i].id)

\* the rendered nodes of test files
RenderedTestIds == {flowNodes[i].id : i \in {k \in DOMAIN flowNodes : isTestFile(flowNodes[k].filePath)}}

\* a calls edge with both ends rendered leaves a node of a test file and enters
\* the node id
CalledByVisibleTest(id) ==
    \E j \in DOMAIN rawEdges :
        /\ rawEdges[j].type = "calls"
        /\ EndpointsIn(rawEdges[j], RenderedIds)
        /\ rawEdges[j].source_id \in RenderedTestIds
        /\ rawEdges[j].target_id = id

\* C22 as stated: the test-covered flag of a rendered function or class node is
\* true exactly when a calls edge with both ends rendered leaves a node of a
\* test file and enters the node; an edge from a test-file node that is not
\* rendered does not set it.
C22_AsStated ==
    \A i \in DOMAIN flowNodes :
        flowNodes[i].nodeType \in {"function", "class"}
            => flowNodes[i].testCovered = Some(CalledByVisibleTest(flowNodes[i].id))

\* files were selected, no node of a test file is rendered, and a rendered
\* class carries the flag for a call from a test-file node that was filtered out
C22_HiddenTestCaller ==
    /\ lastOp.op = "toggleFileSelection"
    /\ RenderedTestIds = {}
    /\ \E i \in DOMAIN flowNodes :
          /\ flowNodes[i].nodeType = "class"
          /\ flowNodes[i].testCovered = Some(TRUE)
          /\ \E j \in DOMAIN rawEdges :
                /\ rawEdges[j].type = "calls"
                /\ rawEdges[j].target_id = flowNodes[i].id
                /\ rawEdges[j].source_id \notin RenderedIds

\* C24: a rendered node is flagged as an entry point exactly when it is a
\* function, at least 3 raw edges with both ends rendered leave it and at most
\* 1 enters it; a node of another type is never flagged.
C24_EntryPoint ==
    \A i \in DOMAIN flowNodes :
        flowNodes[i].isEntryPoint <=>
            /\ flowNodes[i].nodeType = "function"
            /\ BetweenOutOf(flowNodes[i].id) >= 3
            /\ BetweenInto(flowNodes[i].id) <= 1

\* files were selected and a rendered function is flagged that two raw edges
\* enter, one of them from a node that is not rendered
C24_Witness ==
    /\ lastOp.op = "toggleFileSelection"
    /\ \E i \in DOMAIN flowNodes :
          /\ flowNodes[i].isEntryPoint
          /\ Cardinality({j \in DOMAIN rawEdges : rawEdges[j].target_id = flowNodes[i].id}) = 2
          /\ BetweenInto(flowNodes[i].id) = 1
          /\ BetweenOutOf(flowNodes[i].id) = 3

\* the rendered edge carries an id that the held trace recorded
HasTracedId(fe) == IsSome(flowTraceResult) /\ fe.id \in DOMAIN Get(flowTraceResult).edgeOrder

\* C23 as stated: a rendered edge is animated exactly when no trace is held, it
\* is a calls edge and at most 150 nodes are rendered, or a trace is held and
\* it is an edge of the trace; while a trace is held every other edge, the
\* calls edges among them, is dimmed, solid and not animated.
C23_AsStated ==
    \A i \in DOMAIN flowEdges :
        LET fe == flowEdges[i] IN
        /\ fe.animated <=>
              \/ /\ flowTraceResult = None
                 /\ fe.edgeType = "calls"
                 /\ Len(flowNodes) <= LARGE_GRAPH_NODES
              \/ HasTracedId(fe)
        /\ (IsSome(flowTraceResult) /\ ~HasTracedId(fe)) =>
              /\ fe.stroke = colors.impactDimmed
              /\ fe.strokeDasharray = "undefined"
              /\ ~fe.animated

\* a trace is held, and a rendered calls edge that is not of the trace is
\* dimmed and solid but animated
C23_AnimatedOutsideTrace ==
    /\ lastOp.op = "traceFlow"
    /\ IsSome(flowTraceResult)
    /\ \E i \in DOMAIN flowEdges :
          /\ ~HasTracedId(flowEdges[i])
          /\ flowEdges[i].edgeType = "calls"
          /\ flowEdges[i].stroke = colors.impactDimmed
          /\ flowEdges[i].strokeDasharray = "undefined"
          /\ flowEdges[i].animated

\* the rendered edge is a calls edge over which the search of the held trace
\* discovered a chain node, from the origin or from an earlier chain node
DiscoveringEdge(fe) ==
    LET t == Get(flowTraceResult)
    IN /\ fe.edgeType = "calls"
       /\ \E i \in DOMAIN t.chain :
             /\ t.chain[i].nodeId = fe.target
             /\ t.chain[i].parentEdgeId = EdgeId(fe.source, fe.target)
             /\ \/ fe.source = t.origin
                \/ \E k \in 1..(i - 1) : t.chain[k].nodeId = fe.source

\* accent stroke, animated, flowOrder set
StyledAsTraceEdge(fe) == fe.stroke = colors.accent /\ fe.animated /\ IsSome(fe.flowOrder)

\* C28 as stated: while a flow trace is held, a rendered edge is styled as a
\* trace edge exactly when it is a calls edge over which the search discovered
\* a chain node; an edge of another type is dimmed, also between the source
\* and target of a trace edge; and no two rendered edges have the same id.
C28_AsStated ==
    IsSome(flowTraceResult) =>
        /\ \A i \in DOMAIN flowEdges :
              /\ StyledAsTraceEdge(flowEdges[i]) <=> DiscoveringEdge(flowEdges[i])
              /\ flowEdges[i].edgeType # "calls" => flowEdges[i].stroke = colors.impactDimmed
        /\ \A i, j \in DOMAIN flowEdges : flowEdges[i].id = flowEdges[j].id => i = j

\* a trace is held, and an imports edge that runs beside a trace edge has the
\* id of the trace edge and its style
C28_ImportStyledAsTrace ==
    /\ lastOp.op = "traceFlow"
    /\ IsSome(flowTraceResult)
    /\ \E i, j \in DOMAIN flowEdges :
          /\ flowEdges[i].edgeType = "imports"
          /\ StyledAsTraceEdge(flowEdges[i])
          /\ DiscoveringEdge(flowEdges[j])
          /\ flowEdges[j].source = flowEdges[i].source
          /\ flowEdges[j].target = flowEdges[i].target
          /\ flowEdges[j].id = flowEdges[i].id

\* the least integer c with c * c >= n
LeastCols(n) == CHOOSE c \in 0..n : c * c >= n /\ \A d \in 0..(c - 1) : d * d < n

\* column and row of the cell a rendered node stands in
GridColumn(fn) == (fn.position.x - 40) \div (NODE_WIDTH + 40)
GridRow(fn) == (fn.position.y - 40) \div (NODE_HEIGHT + 30)

\* C25: when the grid layout is taken, with c the least integer whose square
\* is at least the number of nodes, the k-th node (from 0) stands at column
\* k mod c and row floor(k / c), at a pitch of node size plus gap; no two
\* nodes share a cell, no row holds more than c nodes, and the rendered edges
\* are the edges handed to the layout, in their order.
C25_GridPlacement ==
    SparseAndLarge =>
        LET n == Len(flowNodes)
            c == LeastCols(n)
        IN /\ \A k \in DOMAIN flowNodes :
                 /\ flowNodes[k].position =
                        [x |-> GridColumn(flowNodes[k]) * (NODE_WIDTH + 40) + 40,
                         y |-> GridRow(flowNodes[k]) * (NODE_HEIGHT + 30) + 40]
                 /\ GridColumn(flowNodes[k]) = (k - 1) % c
                 /\ GridRow(flowNodes[k]) = (k - 1) \div c
           /\ \A k, m \in DOMAIN flowNodes :
                 flowNodes[k].position = flowNodes[m].position => k = m
           /\ \A r \in 0..n :
                 Cardinality({k \in DOMAIN flowNodes : GridRow(flowNodes[k]) = r}) <= c
           /\ Len(flowEdges) = Len(EdgesOfRendered)
           /\ \A i \in DOMAIN flowEdges :
                 /\ flowEdges[i].source = EdgesOfRendered[i].source_id
                 /\ flowEdges[i].target = EdgesOfRendered[i].target_id
                 /\ flowEdges[i].edgeType = EdgesOfRendered[i].type

\* the zoom level was set and sixteen nodes, some of them joined by edges,
\* stand on a grid of four full rows
C25_Witness ==
    /\ lastOp.op = "setZoomLevel"
    /\ SparseAndLarge
    /\ Len(flowNodes) = 16
    /\ flowEdges # <<>>
    /\ GridRow(flowNodes[16]) = 3
    /\ GridColumn(flowNodes[16]) = 3

\* C26: at most one timer of the search palette is pending; right after a
\* change of the query the only pending timer is a fresh one for the new
\* query; a request is sent only by a timer set for the query that is shown,
\* which has stayed unchanged for the whole debounce interval, and only for a
\* query of at least 2 characters once trimmed.
C26_Debounce ==
    /\ Cardinality(palette.timers) <= 1
    /\ lastOp.op = "setQuery" =>
          /\ palette.query = lastOp.arg
          /\ \E t \in palette.timers :
                palette.timers = {t} /\ t.query = palette.query /\ t.elapsed = 0
    /\ \A i \in DOMAIN palette.sent :
          /\ palette.sent[i].typed = palette.sent[i].shown
          /\ palette.sent[i].unchangedFor >= DEBOUNCE_MS
          /\ Len(palette.sent[i].query) >= 2
          /\ palette.sent[i].query = Trim(palette.sent[i].typed)

\* the query was changed twice within the interval and then left alone: one
\* request was sent, for the second query trimmed, and the timer of a query
\* too short once trimmed has fired since without a request
C26_Witness ==
    /\ lastOp.op = "timerFires"
    /\ Len(Trim(lastOp.arg)) < 2
    /\ lastOp.arg # <<>>
    /\ palette.timersSet = 4
    /\ Len(palette.sent) = 1
    /\ palette.sent[1].typed = <<" ", "a", "b">>
    /\ palette.sent[1].query = <<"a", "b">>

\* the nodes that paths of at most k calls edges lead to from the nodes of S
RECURSIVE WithinCalls(_, _)
WithinCalls(S, k) == IF k = 0 THEN S ELSE WithinCalls(S \cup CallTargets(S), k - 1)

\* the length of the shortest path of calls edges from origin to id
ShortestCalls(origin, id) ==
    CHOOSE k \in 0..Len(rawEdges) :
        /\ id \in WithinCalls({origin}, k)
        /\ k > 0 => id \notin WithinCalls({origin}, k - 1)

\* the depth the held trace gives the node id: 0 for the origin
TraceDepth(id) ==
    LET t == Get(flowTraceResult)
    IN IF id = t.origin THEN 0
       ELSE t.chain[CHOOSE i \in DOMAIN t.chain : t.chain[i].nodeId = id].depth

\* C27: in the chain of the held trace the depth of every entry is the length
\* of the shortest path of calls edges from the origin to its node, depths
\* never decrease along the chain, and every entry is one deeper than the
\* source of the calls edge that parentEdgeId names.
C27_DepthIsDistance ==
    IsSome(flowTraceResult) =>
        LET t == Get(flowTraceResult) IN
        /\ \A i \in DOMAIN t.chain :
              /\ t.chain[i].depth = ShortestCalls(t.origin, t.chain[i].nodeId)
              /\ \E j \in DOMAIN rawEdges :
                    /\ rawEdges[j].type = "calls"
                    /\ rawEdges[j].target_id = t.chain[i].nodeId
                    /\ EdgeId(rawEdges[j].source_id, rawEdges[j].target_id) = t.chain[i].parentEdgeId
                    /\ rawEdges[j].source_id \in {t.origin} \cup {t.chain[k].nodeId : k \in 1..(i - 1)}
                    /\ t.chain[i].depth = TraceDepth(rawEdges[j].source_id) + 1
        /\ \A i \in 1..(Len(t.chain) - 1) : t.chain[i].depth <= t.chain[i + 1].depth

\* a trace is held whose second entry lies two calls from the origin, and a
\* calls edge leads from it back to the origin
C27_Witness ==
    /\ lastOp.op = "traceFlow"
    /\ IsSome(flowTraceResult)
    /\ LET t == Get(flowTraceResult) IN
       /\ Len(t.chain) = 2
       /\ t.chain[1].depth = 1
       /\ t.chain[2].depth = 2
       /\ \E j \in DOMAIN rawEdges :
             /\ rawEdges[j].type = "calls"
             /\ rawEdges[j].source_id = t.chain[2].nodeId
             /\ rawEdges[j].target_id = t.origin

\* C29 as stated: whenever a node detail is held it is the detail of the
\* selected node, also when selectNode was called again while an earlier
\* detail request was outstanding.
C29_AsStated ==
    IsSome(nodeDetail) => selectedNodeId = Some(Get(nodeDetail).id)

\* a detail request was fulfilled after another node had been selected: the
\* detail held is that of the node selected before
C29_StaleDetail ==
    /\ lastOp.op = "selectNodeResolved"
    /\ IsSome(nodeDetail)
    /\ IsSome(selectedNodeId)
    /\ Get(nodeDetail).id = lastOp.arg
    /\ Get(selectedNodeId) # Get(nodeDetail).id

\* the graph requests in flight
GraphRequestsOutstanding == {r \in pending : r.kind = "graph"}

\* C30 as stated: loading is true exactly while at least one graph request is
\* outstanding, also when loadGraph calls overlap and whether the requests are
\* fulfilled or rejected.
C30_AsStated == loading <=> GraphRequestsOutstanding # {}

\* one of two overlapping graph requests has been answered: loading is false
\* while the other is outstanding
C30_IdleWhileLoading ==
    /\ lastOp.op \in {"loadGraphResolved", "loadGraphRejected"}
    /\ ~loading
    /\ GraphRequestsOutstanding # {}

====
